---------------------------- MODULE Spec2Model ----------------------------
(***************************************************************************)
(* State-machine model of the stock-app real-time quote table: the         *)
(* in-memory LatestQuoteData map guarded by its RWMutex, the WebSocket     *)
(* ingester goroutine of RealTimeFetcher.StartRealTimeUpdates, the         *)
(* ScheduleDataWrite goroutine with writeDataToCache / writeDataToDB, the  *)
(* Redis-backed StockCache and the serving use case.                       *)
(*                                                                         *)
(* Numbers: prices and volumes are float64 in the source; the model uses   *)
(* integers (all values drawn are integral, so +, -, max and min are       *)
(* exact).  ChangePercentage is kept in hundredths of a percent, rounded   *)
(* to the nearest hundredth.  Timestamps are milliseconds; a cache score   *)
(* and a database key are whole seconds, as in the source.                 *)
(***************************************************************************)
EXTENDS Integers, Sequences, FiniteSets, TLC

\* ------------------------------------------------------------------ bounds
\* Number of feed messages the ingester reads in a run.
MaxMsgs == 2
\* Number of timer ticks the scheduler's ticker delivers in a run.
MaxTicks == 1
\* Number of serving requests handled in a run.
MaxRequests == 1
\* Timer ticks delivered to the scheduler when no feed is connected.
MaxSchedTicks == 2
\* Number of calls a caller of the cache on its own makes in a run.
MaxCalls == 2

\* ------------------------------------------------------- program constants
CacheShortTTL == 10
CacheLongTTL == 24000
Sunday == 0
Saturday == 6
MarketOpenSec == 34200
MarketCloseSec == 57600
\* Seconds in a day, and by how much New York is behind UTC.
DaySec == 86400
ESTBehindSec == 18000
EDTBehindSec == 14400

Symbols == {"AAPL", "TSLA"}

\* ---------------------------------------------------------------- records
\* entity.StockQuote
StockQuote(s, c, d, dp, h, l, o, pc, v, t) ==
    [Symbol |-> s, Price |-> c, Change |-> d, ChangePercentage |-> dp,
     HighPrice |-> h, LowPrice |-> l, OpenPrice |-> o, PrevClose |-> pc,
     Volume |-> v, Timestamp |-> t]

\* The zero value of a map lookup that misses (a nil *StockQuote).
NilQuote == StockQuote("", 0, 0, 0, 0, 0, 0, 0, 0, 0)

\* What a read of the map returns while another goroutine is inside a map
\* assignment: Go gives no guarantee for a concurrent map read and write.
TornQuote == StockQuote("?", -1, -1, -1, -1, -1, -1, -1, -1, -1)

\* Max returning its first argument whatever the second is.
MaxFirst(a, b) == a

\* utils.Max
Max(a, b) == IF a > b THEN a ELSE b

\* utils.Min
Min(a, b) == IF a < b THEN a ELSE b

\* n / d rounded to the nearest integer, halves away from zero (d > 0).
RoundDiv(n, d) ==
    IF n >= 0 THEN (2 * n + d) \div (2 * d) ELSE -((2 * (-n) + d) \div (2 * d))

\* (change / prevQuote.Price) * 100, in hundredths of a percent.  A float64
\* division by zero does not trap: it yields an infinity or a NaN, which the
\* model writes as one value no finite percentage takes.
ChangePercentageOf(change, prevPrice) ==
    IF prevPrice <= 0 THEN 10000000 ELSE RoundDiv(change * 10000, prevPrice)

\* DeriveQuote with the change taken against the previous close instead of
\* the previous price.
DeriveQuoteFromPrevClose(prevQuote, trade) ==
    LET change == trade.p - prevQuote.PrevClose
    IN  StockQuote(trade.s, trade.p, change,
                   ChangePercentageOf(change, prevQuote.PrevClose),
                   Max(trade.p, prevQuote.HighPrice),
                   Min(trade.p, prevQuote.LowPrice),
                   prevQuote.OpenPrice, prevQuote.Price,
                   prevQuote.Volume + trade.v, trade.t)

\* DeriveQuote with the open price taken from the previous price.
DeriveQuoteOpenFromPrice(prevQuote, trade) ==
    LET change == trade.p - prevQuote.Price
    IN  StockQuote(trade.s, trade.p, change,
                   ChangePercentageOf(change, prevQuote.Price),
                   Max(trade.p, prevQuote.HighPrice),
                   Min(trade.p, prevQuote.LowPrice),
                   prevQuote.Price, prevQuote.Price,
                   prevQuote.Volume + trade.v, trade.t)

\* The StockQuote literal the ingester builds from a trade and the record it
\* looked up.
DeriveQuote(prevQuote, trade) ==
    LET change == trade.p - prevQuote.Price
    IN  StockQuote(trade.s,
                   trade.p,
                   change,
                   ChangePercentageOf(change, prevQuote.Price),
                   Max(trade.p, prevQuote.HighPrice),
                   Min(trade.p, prevQuote.LowPrice),
                   prevQuote.OpenPrice,
                   prevQuote.Price,
                   prevQuote.Volume + trade.v,
                   trade.t)

\* A map assignment that updates the record in place and leaves its Volume.
MapAssignKeepingVolume(m, k, v) ==
    [x \in (DOMAIN m) \cup {k} |->
        IF x # k THEN m[x]
        ELSE IF k \in DOMAIN m THEN [v EXCEPT !.Volume = m[k].Volume] ELSE v]

\* Go map assignment m[k] = v.
MapAssign(m, k, v) ==
    [x \in (DOMAIN m) \cup {k} |-> IF x = k THEN v ELSE m[x]]

EmptyMap == [x \in {} |-> NilQuote]

\* ------------------------------------------------------------ market clock
\* An instant as America/New_York wall-clock time: weekday and second of day.
Instant(wd, sec) == [wd |-> wd, sec |-> sec]

\* A UTC instant: weekday, second of day, and whether daylight saving time is
\* in force in New York on that day.
UTCInstant(wd, sec, dst) == [wd |-> wd, sec |-> sec, dst |-> dst]

\* currentTime.In(loc): New York wall-clock time is UTC less five hours, less
\* four under daylight saving time; before that hour of the UTC day it is
\* still the previous day in New York.
InNewYork(u) ==
    LET behind == IF u.dst THEN EDTBehindSec ELSE ESTBehindSec
    IN  IF u.sec >= behind
        THEN Instant(u.wd, u.sec - behind)
        ELSE Instant(IF u.wd = Sunday THEN Saturday ELSE u.wd - 1,
                     u.sec + DaySec - behind)

\* IsUSMarketOpen with the opening instant counted as open.
IsUSMarketOpenFromOpening(t, locOK) ==
    IF ~locOK THEN FALSE
    ELSE IF t.wd = Saturday \/ t.wd = Sunday THEN FALSE
    ELSE t.sec >= MarketOpenSec /\ t.sec < MarketCloseSec

\* utils.IsUSMarketOpen, given whether time.LoadLocation succeeded.
IsUSMarketOpen(t, locOK) ==
    IF ~locOK THEN FALSE
    ELSE IF t.wd = Saturday \/ t.wd = Sunday THEN FALSE
    ELSE t.sec > MarketOpenSec /\ t.sec < MarketCloseSec

\* The instants the wall clock passes through in a run, in order.
Clock == << Instant(2, 34200), Instant(2, 43200), Instant(2, 57600) >>

\* ------------------------------------------------------------------ inputs
\* Historical quotes per symbol as the cache or the database holds them at
\* startup; the last element is the most recent bar.
HistoryOf(s) ==
    IF s = "AAPL"
    THEN << StockQuote("AAPL", 149, 9, 643, 149, 149, 149, 140, 900, 0),
            StockQuote("AAPL", 150, 10, 714, 150, 150, 150, 140, 1000, 1000) >>
    ELSE << StockQuote("TSLA", 200, -10, -476, 201, 199, 200, 210, 500, 1000) >>

\* Values a trade entry of the feed carries.
Trade(s, p, v, t) == [s |-> s, p |-> p, v |-> v, t |-> t]

Trades ==
    {Trade("AAPL", 152, 50, 2000), Trade("AAPL", 148, -50, 2000),
     Trade("TSLA", 152, 50, 2000)}

\* The previous day's close in stock_daily_data, joined by the queries.
DailyPrevClose(s) == IF s = "AAPL" THEN 140 ELSE 210

\* [startTime, endTime] of a range query, in whole seconds.
Windows == {<<0, 2>>, <<1, 2>>}

\* ------------------------------------------------------------- Redis cache
\* The cache maps a key "stock:<symbol>:history" (here: the symbol) to a
\* sorted set of members, each a JSON-encoded StockQuote with a score, and the
\* TTL last set on the key (0: the key does not expire).

\* float64(stock.Timestamp.Unix())
ScoreOf(q) == q.Timestamp \div 1000

\* prepareZData: one redis.Z per quote of the slice.
prepareZData(stock) ==
    {[score |-> ScoreOf(stock[i]), member |-> stock[i]] : i \in DOMAIN stock}

\* Redis ZADD: a member already in the set keeps one copy, with the new score.
ZAdd(c, key, zs) ==
    LET old == IF key \in DOMAIN c THEN c[key].members ELSE {}
        kept == {z \in old : \A n \in zs : n.member # z.member}
        ttl == IF key \in DOMAIN c THEN c[key].ttl ELSE 0
    IN  [k \in (DOMAIN c) \cup {key} |->
            IF k = key THEN [members |-> kept \cup zs, ttl |-> ttl] ELSE c[k]]

\* Redis EXPIRE: sets the TTL of an existing key, does nothing otherwise.
Expire(c, key, ttl) ==
    IF key \in DOMAIN c THEN [c EXCEPT ![key].ttl = ttl] ELSE c

\* The fields of a member in the order json.Marshal writes them; the order of
\* two members with equal scores is the order of their encodings, modelled
\* field by field.
MemberKey(q) ==
    << q.Price, q.Change, q.ChangePercentage, q.HighPrice, q.LowPrice,
       q.OpenPrice, q.PrevClose, q.Volume, q.Timestamp >>

LexLess(a, b) ==
    \E i \in DOMAIN a : a[i] < b[i] /\ \A j \in 1..(i - 1) : a[j] = b[j]

ZLess(y, z) ==
    \/ y.score < z.score
    \/ y.score = z.score /\ LexLess(MemberKey(y.member), MemberKey(z.member))

\* The members of a sorted set in ascending order, as a sequence.
RECURSIVE ZSorted(_)
ZSorted(zs) ==
    IF zs = {} THEN << >>
    ELSE LET first == CHOOSE z \in zs : \A y \in zs \ {z} : ZLess(z, y)
         IN  << first >> \o ZSorted(zs \ {first})

\* A range query that leaves out the members whose score is max.
ZRangeBelowMax(c, key, lo, hi) ==
    IF key \in DOMAIN c
    THEN ZSorted({z \in c[key].members : z.score >= lo /\ z.score < hi})
    ELSE << >>

\* ZRANGEBYSCORE key min max
ZRangeByScore(c, key, lo, hi) ==
    IF key \in DOMAIN c
    THEN ZSorted({z \in c[key].members : z.score >= lo /\ z.score <= hi})
    ELSE << >>

\* A member that is not the encoding of a StockQuote.
Garbled == [raw |-> "?"]

\* json.Unmarshal of a member into a StockQuote returns no error.
Decodes(member) == "Symbol" \in DOMAIN member

\* unmarshalStockQuotes: the members that decode, in the order given; the
\* others are skipped.
unmarshalStockQuotes(stockData) ==
    LET decoded == SelectSeq(stockData, LAMBDA z : Decodes(z.member))
    IN  [i \in DOMAIN decoded |-> decoded[i].member]

\* RedisStockCache.Get: the quotes and found; a Redis error is a miss.
CacheGet(c, redisOK, symbol, lo, hi) ==
    LET stockData == ZRangeByScore(c, symbol, lo, hi)
    IN  IF ~redisOK \/ Len(stockData) = 0
        THEN [quotes |-> << >>, found |-> FALSE]
        ELSE [quotes |-> unmarshalStockQuotes(stockData), found |-> TRUE]

\* RedisStockCache.GetAll: the map of the symbols whose Get is found.
CacheGetAll(c, redisOK, lo, hi) ==
    LET hit == {k \in DOMAIN c : CacheGet(c, redisOK, k, lo, hi).found}
        stocks == [k \in hit |-> CacheGet(c, redisOK, k, lo, hi).quotes]
    IN  IF ~redisOK THEN [stocks |-> << >>, found |-> FALSE]
        ELSE [stocks |-> stocks, found |-> hit # {}]

\* RedisStockCache.Set: ZADD of the slice, then EXPIRE when expiration > 0.
\* zaddOK is whether the ZADD call succeeds; a ZADD without members fails.
CacheSet(c, symbol, stock, expiration, zaddOK) ==
    LET zData == prepareZData(stock)
    IN  IF ~zaddOK \/ zData = {} THEN [cache |-> c, err |-> TRUE]
        ELSE LET added == ZAdd(c, symbol, zData)
             IN  [cache |-> IF expiration > 0
                            THEN Expire(added, symbol, expiration) ELSE added,
                  err |-> FALSE]

\* RedisStockCache.SetLatest: ZADD of one quote (a failure is only logged),
\* then EXPIRE when expiration > 0.
CacheSetLatest(c, symbol, stock, expiration, zaddOK) ==
    LET added == IF zaddOK
                 THEN ZAdd(c, symbol, {[score |-> ScoreOf(stock), member |-> stock]})
                 ELSE c
    IN  IF expiration > 0 THEN Expire(added, symbol, expiration) ELSE added

\* RedisStockCache.SetAll: one Set per symbol, joined; its errors are dropped.
\* failing is the set of symbols whose ZADD fails.
RECURSIVE CacheSetAll(_, _, _, _)
CacheSetAll(c, stocks, expiration, failing) ==
    IF DOMAIN stocks = {} THEN c
    ELSE LET k == CHOOSE x \in DOMAIN stocks : TRUE
             rest == [x \in (DOMAIN stocks) \ {k} |-> stocks[x]]
         IN  CacheSetAll(CacheSet(c, k, stocks[k], expiration, k \notin failing).cache,
                         rest, expiration, failing)

\* RedisStockCache.SetAllLatest: one SetLatest per symbol, joined.
RECURSIVE CacheSetAllLatest(_, _, _, _)
CacheSetAllLatest(c, stocks, expiration, failing) ==
    IF DOMAIN stocks = {} THEN c
    ELSE LET k == CHOOSE x \in DOMAIN stocks : TRUE
             rest == [x \in (DOMAIN stocks) \ {k} |-> stocks[x]]
         IN  CacheSetAllLatest(
                 CacheSetLatest(c, k, stocks[k], expiration, k \notin failing),
                 rest, expiration, failing)

\* The cache holding the history of the symbols of D, as a warm start finds it.
WarmCache(D) ==
    [k \in D |-> [members |-> prepareZData(HistoryOf(k)), ttl |-> CacheLongTTL]]

\* ------------------------------------------------------------ durable store
\* stock_intraday_data: primary key (symbol, timestamp in whole seconds).
Row(o, h, l, c, v) == [open |-> o, high |-> h, low |-> l, close |-> c, volume |-> v]

\* quote.Timestamp.Format("2006-01-02 15:04:05")
FormatTimestamp(t) == t \div 1000

\* An upsert that keeps the row it finds: ON CONFLICT DO NOTHING.
InsertIfAbsent(d, symbol, timestamp, o, h, l, c, v) ==
    [k \in (DOMAIN d) \cup {<<symbol, timestamp>>} |->
        IF k \in DOMAIN d THEN d[k] ELSE Row(o, h, l, c, v)]

\* StockRepoImpl.InsertIntradayData: INSERT ... ON CONFLICT DO UPDATE.
InsertIntradayData(d, symbol, timestamp, o, h, l, c, v) ==
    [k \in (DOMAIN d) \cup {<<symbol, timestamp>>} |->
        IF k = <<symbol, timestamp>> THEN Row(o, h, l, c, v) ELSE d[k]]

\* The row a query turns into a StockQuote, joined with the previous close.
QuoteOfRow(symbol, timestamp, r) ==
    LET pc == DailyPrevClose(symbol)
    IN  StockQuote(symbol, r.close, r.close - pc,
                   ChangePercentageOf(r.close - pc, pc),
                   r.high, r.low, r.open, pc, r.volume, timestamp * 1000)

\* The table holding the history of the symbols of D.
RECURSIVE SeedRows(_, _)
SeedRows(d, qs) ==
    IF qs = << >> THEN d
    ELSE LET q == Head(qs)
         IN  SeedRows(InsertIntradayData(d, q.Symbol, FormatTimestamp(q.Timestamp),
                                         q.OpenPrice, q.HighPrice, q.LowPrice,
                                         q.Price, q.Volume),
                      Tail(qs))

EmptyTable == [k \in {} |-> Row(0, 0, 0, 0, 0)]

SeededTable(D) ==
    IF D = {} THEN EmptyTable
    ELSE IF D = {"AAPL"} THEN SeedRows(EmptyTable, HistoryOf("AAPL"))
    ELSE SeedRows(SeedRows(EmptyTable, HistoryOf("AAPL")), HistoryOf("TSLA"))

\* The rows of a symbol with timestamp in [lo, hi], as StockQuotes.
RowsInRange(d, symbol, lo, hi) ==
    {QuoteOfRow(k[1], k[2], d[k]) :
        k \in {x \in DOMAIN d : x[1] = symbol /\ x[2] >= lo /\ x[2] <= hi}}

\* Every order in which a query without ORDER BY may return a set of rows.
RECURSIVE Orderings(_)
Orderings(S) ==
    IF S = {} THEN {<< >>}
    ELSE UNION {{<< x >> \o rest : rest \in Orderings(S \ {x})} : x \in S}


\* Every result GetAllHistoricalData of the repository may return for a
\* window: each symbol with rows in the window, its rows in some order.
QueryAllHistorical(d, lo, hi) ==
    LET syms == {x \in Symbols : RowsInRange(d, x, lo, hi) # {}}
        any == UNION {Orderings(RowsInRange(d, x, lo, hi)) : x \in syms}
    IN  {f \in [syms -> any] :
            \A x \in syms : f[x] \in Orderings(RowsInRange(d, x, lo, hi))}

\* ------------------------------------------------------------------- state
VARIABLES
    now,          \* index into Clock: the current instant
    locOK,        \* whether time.LoadLocation("America/New_York") succeeds
    cache,        \* the Redis cache
    db,           \* stock_intraday_data
    StockData,    \* LatestQuoteData.StockData
    Mu,           \* LatestQuoteData.Mu: [w: the writer or "none", r: the readers]
    mapBusy,      \* a goroutine is inside a map assignment of StockData
    pcMain,       \* main: "boot", "serving" or "fatal"
    pcIng,        \* the ingester goroutine's position
    msgs,         \* feed messages read so far
    msg,          \* trades: the entries of the message being processed
    idx,          \* the index of the entry being processed
    prevQuote,    \* the ingester's local prevQuote
    exists,       \* the ingester's local exists
    stockQuote,   \* the ingester's local stockQuote
    pcSched,      \* the scheduler goroutine's position
    ticks,        \* timer ticks delivered so far
    pending,      \* symbols the range loop of writeDataToDB has yet to visit
    dbDown,       \* symbols whose durable-store write fails during this tick
    requests,     \* serving requests handled so far
    \* history variables, read by the properties only
    baseline,     \* StockData as PrePopulateLatestData left it
    lastWritten,  \* per symbol, the record of the latest completed write
    written,      \* per symbol, every record a completed write stored
    accepted,     \* per symbol, the prices of the accepted trade events
    dropped,      \* symbols of the trade events discarded for want of a record
    seen,         \* the records the scheduler read in its current tick
    attempted,    \* symbols writeDataToDB called InsertIntradayData for, this tick
    persisted,    \* symbols whose InsertIntradayData succeeded, this tick
    ttlLog,       \* the cache writes: operation, TTL passed, market state
    reply,        \* the last request served: its inputs and the HTTP response
    readErrs,     \* reads of the feed that returned an error
    cacheTicks,   \* ticks in which writeDataToCache called SetAllLatest
    dbTicks,      \* ticks in which writeDataToDB was entered
    cacheErrs,    \* symbols whose cache write failed, this tick
    \* the extent of a run
    tickBound,    \* the number of timer ticks the run delivers
    \* a caller of utils.IsUSMarketOpen on its own
    probe,        \* the instant passed as currentTime
    answer,       \* whether the call returned, and the value it returned
    \* a caller of RedisStockCache on its own
    calls,        \* cache calls made so far
    fanCall,      \* the SetAll / SetAllLatest call in progress, or NoCall
    toSpawn,      \* symbols of the call's range loop not yet visited
    wg,           \* the call's sync.WaitGroup counter
    running,      \* symbols whose goroutine was started and has not called Done
    lastCall,     \* the last cache call that returned: its arguments and outcome
    \* a caller of RedisStockCache.DeleteAll beside a writer of the cache
    delPc,        \* DeleteAll's position: "idle", "range" or "returned"
    delKeys,      \* keys of the KEYS reply the range loop has not deleted
    delErr,       \* what DeleteAll returned: "none" yet, "nil" or "error"
    \* a reader of RedisStockCache on its own
    lastRead,     \* the last read call: its arguments and what it returned
    \* a caller of StockRepoImpl.InsertIntradayData on its own
    lastInsert,   \* the last insert: its number, its arguments, the table before
    \* a caller of TimeSeriesFetcher on its own
    refresh,      \* the fetch in progress: position, inputs, inserts attempted
    daily         \* stock_daily_data: (symbol, date) -> row

probeVars == << probe, answer >>
fanVars == << calls, fanCall, toSpawn, wg, running, lastCall >>
delVars == << delPc, delKeys, delErr >>
readVars == << lastRead >>
storeVars == << lastInsert >>
refreshVars == << refresh, daily >>
unitVars == << probeVars, fanVars, delVars, readVars, storeVars, refreshVars >>

phaseHist == << cacheTicks, dbTicks, cacheErrs >>

vars ==
    << tickBound, unitVars, reply, readErrs, phaseHist, now, locOK, cache, db, StockData, Mu, mapBusy, pcMain, pcIng, msgs, msg,
       idx, prevQuote, exists, stockQuote, pcSched, ticks, pending, dbDown,
       requests, baseline, lastWritten, written, accepted, dropped, seen,
       attempted, persisted, ttlLog >>

ingVars == << pcIng, msgs, msg, idx, prevQuote, exists, stockQuote >>
schedVars == << pcSched, ticks, pending, dbDown >>
tickHist == << seen, attempted, persisted >>
storeHist == << baseline, lastWritten, written, accepted, dropped >>
besideCache ==
    << now, locOK, tickBound, db, StockData, Mu, mapBusy, pcMain, ingVars,
       schedVars, requests, storeHist, tickHist, ttlLog, reply, readErrs, phaseHist >>
processVars == << cache, besideCache >>

\* Whether the market is open at the current instant.
MarketOpenNow == IsUSMarketOpen(Clock[now], TRUE)

\* The entry of ttlLog for a cache write made now.
CacheWrite(op, ttl) == [op |-> op, ttl |-> ttl, open |-> MarketOpenNow]

NoneWritten == [s \in Symbols |-> {}]

\* No SetAll / SetAllLatest call is in progress.
NoCall ==
    [op |-> "none", stocks |-> << >>, expiration |-> 0, failing |-> {},
     errs |-> {}]

\* A cache call that returned: the n-th call, its operation, the symbols it
\* was to write, the expiration passed, the symbols whose write failed, and
\* the error returned ("nil" or "error"; SetLatest returns nothing: "nil").
Returned(n, op, symbols, expiration, errs, err) ==
    [n |-> n, op |-> op, symbols |-> symbols, expiration |-> expiration,
     errs |-> errs, err |-> err]

\* No cache call has returned.
NoResult == Returned(0, "none", {}, 0, {}, "nil")

\* A request served: the handler, the symbol asked for, whether Redis and
\* PostgreSQL answered during it, whether the use case queried the durable
\* store, the HTTP status and the body of the response (<< >>: none, or nil).
Reply(op, symbol, redisOK, dbOK, fellBack, status, body) ==
    [op |-> op, symbol |-> symbol, redisOK |-> redisOK, dbOK |-> dbOK,
     fellBack |-> fellBack, status |-> status, body |-> body]

\* No request was served.
NoReply == Reply("none", "", TRUE, TRUE, FALSE, 0, << >>)

\* The state as main finds it before FetchRealTimeData: the process's own
\* state as constructed, the cache one of caches and the durable store one of
\* tables.  starts are the instants (indices of Clock) the process may start
\* at, zones the outcomes of loading the time zone, budget the number of timer
\* ticks of the run.
InitProcessOn(caches, tables, starts, zones, budget) ==
    /\ now \in starts
    /\ locOK \in zones
    /\ tickBound = budget
    /\ cache \in caches
    /\ db \in tables
    /\ StockData = EmptyMap
    /\ Mu = [w |-> "none", r |-> {}]
    /\ mapBusy = FALSE
    /\ pcMain = "boot"
    /\ pcIng = "idle"
    /\ msgs = 0
    /\ msg = << >>
    /\ idx = 0
    /\ prevQuote = NilQuote
    /\ exists = FALSE
    /\ stockQuote = NilQuote
    /\ pcSched = "idle"
    /\ ticks = 0
    /\ pending = {}
    /\ dbDown = {}
    /\ requests = 0
    /\ baseline = EmptyMap
    /\ lastWritten = EmptyMap
    /\ written = NoneWritten
    /\ accepted = NoneWritten
    /\ dropped = {}
    /\ seen = {}
    /\ attempted = {}
    /\ persisted = {}
    /\ ttlLog = {}
    /\ reply = NoReply
    /\ readErrs = 0
    /\ cacheTicks = 0
    /\ dbTicks = 0
    /\ cacheErrs = {}

\* The same, with the cache and the durable store holding the history of the
\* symbols of one of cached, of one of stored.
InitProcess(cached, stored, starts, zones, budget) ==
    InitProcessOn({WarmCache(D) : D \in cached}, {SeededTable(D) : D \in stored},
                  starts, zones, budget)

\* The call of IsUSMarketOpen has not returned; it returned value.
NoAnswer == [returned |-> FALSE, value |-> FALSE]

Answer(value) == [returned |-> TRUE, value |-> value]

\* No call of IsUSMarketOpen on its own is made.
ProbeIdle ==
    /\ probe = UTCInstant(0, 0, FALSE)
    /\ answer = NoAnswer

\* No cache call on its own is made.
FanIdle ==
    /\ calls = 0
    /\ fanCall = NoCall
    /\ toSpawn = {}
    /\ wg = 0
    /\ running = {}
    /\ lastCall = NoResult

\* DeleteAll is not called.
DelIdle ==
    /\ delPc = "idle"
    /\ delKeys = {}
    /\ delErr = "none"

\* A read call of the cache that returned: the operation, its arguments,
\* whether Redis answered, and the value and found returned.
Read(op, symbol, lo, hi, redisOK, value, found) ==
    [op |-> op, symbol |-> symbol, lo |-> lo, hi |-> hi, redisOK |-> redisOK,
     value |-> value, found |-> found]

\* No read call was made.
NoRead == Read("none", "", 0, 0, TRUE, << >>, FALSE)

ReadIdle == lastRead = NoRead

\* A call InsertIntradayData that returned nil: the n-th one, its arguments,
\* the rows the table held before it, and whether one of them had its key.
Inserted(n, symbol, timestamp, row, rowsBefore, conflict) ==
    [n |-> n, symbol |-> symbol, timestamp |-> timestamp, row |-> row,
     rowsBefore |-> rowsBefore, conflict |-> conflict]

\* InsertIntradayData was not called.
NoInsert == Inserted(0, "", 0, Row(0, 0, 0, 0, 0), 0, FALSE)

StoreIdle == lastInsert = NoInsert

\* The empty string GetLatestIntradayDataTimestamp and GetLatestDailyDataDate
\* return for a symbol without rows; it compares below every timestamp.
NoTimestamp == -1

\* No fetch of the time series was started.
NoRefresh ==
    [pc |-> "idle", kind |-> "none", symbol |-> "", latest |-> NoTimestamp,
     lastRefresh |-> 0, series |-> {}, left |-> {}, attempted |-> {}]

\* TimeSeriesFetcher is not called.
RefreshIdle ==
    /\ refresh = NoRefresh
    /\ daily = << >>

\* The process on its own.
InitWith(cached, stored, starts, zones, budget) ==
    /\ InitProcess(cached, stored, starts, zones, budget)
    /\ ProbeIdle
    /\ FanIdle
    /\ DelIdle
    /\ ReadIdle
    /\ StoreIdle
    /\ RefreshIdle

\* A start with the time zone loaded, at or after the opening of the market.
InitFrom(cached, stored) ==
    InitWith(cached, stored, 2..Len(Clock), {TRUE}, MaxTicks)

Init == InitFrom({{}, {"AAPL"}, Symbols}, {Symbols})

\* ------------------------------------------------------------------- clock
\* Time passes to the next instant of Clock.
ClockAdvance ==
    /\ now < Len(Clock)
    /\ now' = now + 1
    /\ UNCHANGED << locOK, tickBound, unitVars, reply, readErrs, phaseHist, cache, db, StockData, Mu, mapBusy, pcMain, ingVars,
                    schedVars, requests, storeHist, tickHist, ttlLog >>

\* ----------------------------------------------------------------- startup
\* StockFetchingUseCase.updateCache: the TTL by the market state, then SetAll.
updateCacheTTL == IF IsUSMarketOpen(Clock[now], locOK) THEN CacheShortTTL ELSE CacheLongTTL

\* StockFetchingUseCase.PrePopulateLatestData: the last quote of every symbol's
\* slice becomes the symbol's record.
RECURSIVE PrePopulateLatestData(_, _)
PrePopulateLatestData(m, latestData) ==
    IF DOMAIN latestData = {} THEN m
    ELSE LET symbol == CHOOSE x \in DOMAIN latestData : TRUE
             quotes == latestData[symbol]
             rest == [x \in (DOMAIN latestData) \ {symbol} |-> latestData[x]]
         IN  PrePopulateLatestData(MapAssign(m, symbol, quotes[Len(quotes)]), rest)

\* A startup that starts the ingester whatever pre-population returned.
IngAfterStartupAnyway(err) == "dial"

\* The ingester after FetchRealTimeData: StartRealTimeUpdates is called after
\* the early return on an error, so only when there was none.
IngAfterStartup(err) == IF err THEN "idle" ELSE "dial"

\* The scheduler after FetchRealTimeData: `go sf.ScheduleDataWrite()` follows
\* StartRealTimeUpdates.
SchedAfterStartup(err) == IF err THEN "idle" ELSE "start"

\* FetchRealTimeData: GetAllHistoricalData (the cache first; on a miss the
\* repository, whose result goes to updateCache and to a variable that shadows
\* the one returned), PrePopulateLatestData, then the two goroutines are
\* started.  A repository error is returned to main, which exits.
FetchRealTimeData ==
    /\ pcMain = "boot"
    /\ \E w \in Windows, redisOK \in BOOLEAN, dbOK \in BOOLEAN, failing \in SUBSET Symbols :
         LET got == CacheGetAll(cache, redisOK, w[1], w[2])
         IN  IF ~got.found /\ ~dbOK
             THEN /\ pcMain' = "fatal"
                  /\ pcIng' = IngAfterStartup(TRUE)
                  /\ pcSched' = SchedAfterStartup(TRUE)
                  /\ UNCHANGED << cache, StockData, baseline, lastWritten,
                                  written, ttlLog >>
             ELSE /\ pcMain' = "serving"
                  /\ IF got.found
                     THEN UNCHANGED << cache, ttlLog >>
                     ELSE \E fromDB \in QueryAllHistorical(db, w[1], w[2]) :
                            /\ cache' = CacheSetAll(cache, fromDB, updateCacheTTL, failing)
                            /\ ttlLog' = IF DOMAIN fromDB = {} THEN ttlLog
                                         ELSE ttlLog \cup {CacheWrite("updateCache", updateCacheTTL)}
                  /\ LET historicalData == IF got.found THEN got.stocks ELSE << >>
                         installed == PrePopulateLatestData(StockData, historicalData)
                     IN  /\ StockData' = installed
                         /\ baseline' = installed
                         /\ lastWritten' = installed
                         /\ written' = [s \in Symbols |->
                                IF s \in DOMAIN installed THEN {installed[s]} ELSE {}]
                  /\ pcIng' = IngAfterStartup(FALSE)
                  /\ pcSched' = SchedAfterStartup(FALSE)
    /\ UNCHANGED << accepted, dropped >>
    /\ UNCHANGED << now, locOK, tickBound, unitVars, reply, readErrs, phaseHist, db, Mu, mapBusy, msgs, msg, idx, prevQuote, exists,
                    stockQuote, ticks, pending, dbDown, requests, tickHist >>


\* ------------------------------------------------------------- the RWMutex
\* sync.RWMutex: RLock is granted while no writer holds the lock.
CanRLock(mu) == mu.w = "none"

\* A Lock that waits for the readers only, not for another writer.
CanLockIgnoringWriter(mu) == mu.r = {}

\* sync.RWMutex: Lock is granted while nobody holds the lock.
CanLock(mu) == mu.w = "none" /\ mu.r = {}

RLock(mu, p) == [mu EXCEPT !.r = @ \cup {p}]
RUnlock(mu, p) == [mu EXCEPT !.r = @ \ {p}]
Lock(mu, p) == [mu EXCEPT !.w = p]
Unlock(mu) == [mu EXCEPT !.w = "none"]

\* A read of StockData[symbol]: the stored record, the zero value on a miss;
\* undefined while a map assignment is in progress.
Lookup(symbol) ==
    IF mapBusy THEN TornQuote
    ELSE IF symbol \in DOMAIN StockData THEN StockData[symbol] ELSE NilQuote

\* A read of the whole map, as a range loop or the cache fan-out sees it.
ReadAll ==
    IF mapBusy THEN [s \in DOMAIN StockData |-> TornQuote] ELSE StockData

\* ---------------------------------------------------------------- ingester
\* Trades per feed message.
MaxBatch == 2

TradeLists == UNION {[1..n -> Trades] : n \in 1..MaxBatch}

\* What conn.ReadJSON delivers: a read error, a message of another type, a
\* trade message whose data is not a list, one whose entry is not an object,
\* one whose entry is an object without the field "v" (or with a field of
\* another type), or a trade message with its list of well-formed entries.
Messages ==
    {[kind |-> k, data |-> << >>] :
        k \in {"error", "ping", "baddata", "notmap", "badfield"}}
    \cup {[kind |-> "trade", data |-> d] : d \in TradeLists}

\* The entry of the message the ingester is processing.
trade == msg[idx]

\* websocket Dial and the subscriptions: on a failure the goroutine returns.
IngDial ==
    /\ pcIng = "dial"
    /\ \E ok \in BOOLEAN : pcIng' = IF ok THEN "read" ELSE "exit"
    /\ UNCHANGED << now, locOK, tickBound, unitVars, reply, readErrs, phaseHist, cache, db, StockData, Mu, mapBusy, pcMain, msgs,
                    msg, idx, prevQuote, exists, stockQuote, schedVars, requests,
                    storeHist, tickHist, ttlLog >>

\* A read loop that ends on a read error.
AfterReadErrorReturn == "exit"

\* `if err != nil { ...; continue }`: after a read error, the next ReadJSON.
AfterReadError == "read"

\* conn.ReadJSON and the checks of the message's shape: a read error, another
\* type, data that is no list or an entry that is no object go back to
\* reading.  The fields of an entry are read with unchecked type assertions:
\* on a missing field or one of another type the goroutine panics, and the
\* panic, recovered nowhere, ends the process with all its goroutines.
IngReadJSON ==
    /\ pcIng = "read"
    /\ msgs < MaxMsgs
    /\ msgs' = msgs + 1
    /\ \E m \in Messages :
         IF m.kind = "trade"
         THEN /\ msg' = m.data
              /\ idx' = 1
              /\ pcIng' = "rlock"
              /\ UNCHANGED << pcMain, pcSched, readErrs >>
         ELSE IF m.kind = "badfield"
         THEN /\ pcIng' = "crashed"
              /\ pcMain' = "crashed"
              /\ pcSched' = "crashed"
              /\ UNCHANGED << msg, idx, readErrs >>
         ELSE IF m.kind = "error"
         THEN /\ readErrs' = readErrs + 1
              /\ pcIng' = AfterReadError
              /\ UNCHANGED << msg, idx, pcMain, pcSched >>
         ELSE UNCHANGED << msg, idx, pcIng, pcMain, pcSched, readErrs >>
    /\ UNCHANGED << now, locOK, tickBound, unitVars, reply, phaseHist, cache, db, StockData, Mu, mapBusy,
                    prevQuote, exists, stockQuote, ticks, pending, dbDown, requests,
                    storeHist, tickHist, ttlLog >>

\* The ingester's position after the entry at idx: the next entry of the
\* message, or the next message.
AfterTrade == IF idx < Len(msg) THEN "rlock" ELSE "read"

\* latestQuoteData.Mu.RLock()
IngRLock ==
    /\ pcIng = "rlock"
    /\ CanRLock(Mu)
    /\ Mu' = RLock(Mu, "ing")
    /\ pcIng' = "lookup"
    /\ UNCHANGED << now, locOK, tickBound, unitVars, reply, readErrs, phaseHist, cache, db, StockData, mapBusy, pcMain, msgs, msg,
                    idx, prevQuote, exists, stockQuote, schedVars, requests,
                    storeHist, tickHist, ttlLog >>

\* A lookup of the record installed at startup instead of the current one.
IngLookupBaseline ==
    /\ pcIng = "lookup"
    /\ prevQuote' = IF trade.s \in DOMAIN baseline THEN baseline[trade.s]
                    ELSE NilQuote
    /\ exists' = (trade.s \in DOMAIN StockData)
    /\ pcIng' = "runlock"
    /\ UNCHANGED << now, locOK, tickBound, unitVars, reply, readErrs, phaseHist, cache, db, StockData, Mu, mapBusy, pcMain, msgs,
                    msg, idx, stockQuote, schedVars, requests, storeHist,
                    tickHist, ttlLog >>

\* prevQuote, exists := latestQuoteData.StockData[symbol]
IngLookup ==
    /\ pcIng = "lookup"
    /\ prevQuote' = Lookup(trade.s)
    /\ exists' \in IF mapBusy THEN BOOLEAN ELSE {trade.s \in DOMAIN StockData}
    /\ pcIng' = "runlock"
    /\ UNCHANGED << now, locOK, tickBound, unitVars, reply, readErrs, phaseHist, cache, db, StockData, Mu, mapBusy, pcMain, msgs,
                    msg, idx, stockQuote, schedVars, requests, storeHist,
                    tickHist, ttlLog >>

\* The cold-start check left out.
AcceptsAlways(found) == TRUE

\* if !exists { continue }
Accepts(found) == found

\* latestQuoteData.Mu.RUnlock(), the cold-start check, and the computation of
\* the new StockQuote.
IngRUnlock ==
    /\ pcIng = "runlock"
    /\ Mu' = RUnlock(Mu, "ing")
    /\ IF Accepts(exists)
       THEN /\ stockQuote' = DeriveQuote(prevQuote, trade)
            /\ pcIng' = "lock"
            /\ idx' = idx
            /\ UNCHANGED dropped
       ELSE /\ pcIng' = AfterTrade
            /\ idx' = IF idx < Len(msg) THEN idx + 1 ELSE idx
            /\ dropped' = dropped \cup {trade.s}
            /\ UNCHANGED stockQuote
    /\ UNCHANGED << now, locOK, tickBound, unitVars, reply, readErrs, phaseHist, cache, db, StockData, mapBusy, pcMain, msgs, msg,
                    prevQuote, exists, schedVars, requests, baseline, lastWritten,
                    written, accepted, tickHist, ttlLog >>

\* latestQuoteData.Mu.Lock()
IngLock ==
    /\ pcIng = "lock"
    /\ CanLock(Mu)
    /\ Mu' = Lock(Mu, "ing")
    /\ pcIng' = "store"
    /\ UNCHANGED << now, locOK, tickBound, unitVars, reply, readErrs, phaseHist, cache, db, StockData, mapBusy, pcMain, msgs, msg,
                    idx, prevQuote, exists, stockQuote, schedVars, requests,
                    storeHist, tickHist, ttlLog >>

\* latestQuoteData.StockData[symbol] = stockQuote: the assignment begins.
IngStoreBegin ==
    /\ pcIng = "store"
    /\ mapBusy' = TRUE
    /\ pcIng' = "storing"
    /\ UNCHANGED << now, locOK, tickBound, unitVars, reply, readErrs, phaseHist, cache, db, StockData, Mu, pcMain, msgs, msg, idx,
                    prevQuote, exists, stockQuote, schedVars, requests,
                    storeHist, tickHist, ttlLog >>

\* latestQuoteData.StockData[symbol] = stockQuote: the assignment completes.
IngStoreEnd ==
    /\ pcIng = "storing"
    /\ StockData' = MapAssign(StockData, trade.s, stockQuote)
    /\ mapBusy' = FALSE
    /\ pcIng' = "unlock"
    /\ lastWritten' = [x \in (DOMAIN lastWritten) \cup {trade.s} |->
                          IF x = trade.s THEN stockQuote ELSE lastWritten[x]]
    /\ written' = [written EXCEPT ![trade.s] = @ \cup {stockQuote}]
    /\ accepted' = [accepted EXCEPT ![trade.s] = @ \cup {trade.p}]
    /\ UNCHANGED << now, locOK, tickBound, unitVars, reply, readErrs, phaseHist, cache, db, Mu, pcMain, msgs, msg, idx, prevQuote,
                    exists, stockQuote, schedVars, requests, baseline, dropped,
                    tickHist, ttlLog >>

\* latestQuoteData.Mu.Unlock(), then the next entry or the next message.
IngUnlock ==
    /\ pcIng = "unlock"
    /\ Mu' = Unlock(Mu)
    /\ pcIng' = AfterTrade
    /\ idx' = IF idx < Len(msg) THEN idx + 1 ELSE idx
    /\ UNCHANGED << now, locOK, tickBound, unitVars, reply, readErrs, phaseHist, cache, db, StockData, mapBusy, pcMain, msgs, msg,
                    prevQuote, exists, stockQuote, schedVars, requests,
                    storeHist, tickHist, ttlLog >>


\* --------------------------------------------------------------- scheduler
\* ScheduleDataWrite entering its loop without the market-open check.
SchedStartUnchecked ==
    /\ pcSched = "start"
    /\ pcSched' = "wait"
    /\ UNCHANGED << now, locOK, tickBound, unitVars, reply, readErrs, phaseHist, cache, db, StockData, Mu,
                    mapBusy, pcMain, ingVars, ticks, pending, dbDown, requests,
                    storeHist, tickHist, ttlLog >>

\* A loop that takes a tick only while the market is open.
SchedTickWhileOpen ==
    /\ pcSched = "wait"
    /\ ticks < tickBound
    /\ IsUSMarketOpen(Clock[now], locOK)
    /\ ticks' = ticks + 1
    /\ pcSched' = "cacheLock"
    /\ UNCHANGED << now, locOK, tickBound, unitVars, reply, readErrs, phaseHist, cache, db, StockData, Mu,
                    mapBusy, pcMain, ingVars, pending, dbDown, requests,
                    storeHist, tickHist, ttlLog >>

\* ScheduleDataWrite: the market-open check made once, before the loop.
SchedStart ==
    /\ pcSched = "start"
    /\ pcSched' = IF IsUSMarketOpen(Clock[now], locOK) THEN "wait" ELSE "exit"
    /\ UNCHANGED << now, locOK, tickBound, unitVars, reply, readErrs, phaseHist, cache, db, StockData, Mu, mapBusy, pcMain, ingVars,
                    ticks, pending, dbDown, requests, storeHist, tickHist, ttlLog >>

\* for range ticker.C: a tick arrives.
SchedTick ==
    /\ pcSched = "wait"
    /\ ticks < tickBound
    /\ ticks' = ticks + 1
    /\ pcSched' = "cacheLock"
    /\ UNCHANGED << now, locOK, tickBound, unitVars, reply, readErrs, phaseHist, cache, db, StockData, Mu, mapBusy, pcMain, ingVars,
                    pending, dbDown, requests, storeHist, tickHist, ttlLog >>

\* writeDataToCache: sf.latestQuoteData.Mu.Lock()
WriteCacheLock ==
    /\ pcSched = "cacheLock"
    /\ CanLock(Mu)
    /\ Mu' = Lock(Mu, "sched")
    /\ pcSched' = "cacheSet"
    /\ UNCHANGED << now, locOK, tickBound, unitVars, reply, readErrs, phaseHist, cache, db, StockData, mapBusy, pcMain, ingVars,
                    ticks, pending, dbDown, requests, storeHist, tickHist, ttlLog >>

\* The TTL writeDataToCache passes to SetAllLatest.
writeDataToCacheTTL == CacheShortTTL

\* writeDataToCache: SetAllLatest of the map with the short TTL; it returns
\* nil whatever per-symbol write failed.
WriteCacheSetAllLatest ==
    /\ pcSched = "cacheSet"
    /\ \E failing \in SUBSET (DOMAIN StockData) :
         /\ cache' = CacheSetAllLatest(cache, ReadAll, writeDataToCacheTTL, failing)
         /\ cacheErrs' = failing
    /\ cacheTicks' = cacheTicks + 1
    /\ UNCHANGED dbTicks
    /\ seen' = seen \cup {ReadAll[s] : s \in DOMAIN StockData}
    /\ ttlLog' = IF DOMAIN StockData = {} THEN ttlLog
                 ELSE ttlLog \cup {CacheWrite("writeDataToCache", writeDataToCacheTTL)}
    /\ pcSched' = "cacheUnlock"
    /\ UNCHANGED << now, locOK, tickBound, unitVars, reply, readErrs, db, StockData, Mu, mapBusy, pcMain, ingVars, ticks,
                    pending, dbDown, requests, storeHist, attempted, persisted >>

\* A loop body that goes back to waiting when a cache write failed.
AfterWriteCacheSkipping(errs) == IF errs # {} THEN "wait" ELSE "dbLock"

\* ScheduleDataWrite after writeDataToCache returned: an error is printed, and
\* writeDataToDB is called in either case.
AfterWriteCache(errs) == "dbLock"

\* writeDataToCache: the deferred Unlock; back in the loop body.
WriteCacheUnlock ==
    /\ pcSched = "cacheUnlock"
    /\ Mu' = Unlock(Mu)
    /\ pcSched' = AfterWriteCache(cacheErrs)
    /\ UNCHANGED << now, locOK, tickBound, unitVars, reply, readErrs, phaseHist, cache, db, StockData, mapBusy, pcMain, ingVars,
                    ticks, pending, dbDown, requests, storeHist, tickHist, ttlLog >>

\* writeDataToDB: sf.latestQuoteData.Mu.Lock(); the range loop starts.  Which
\* durable-store writes fail during the loop is the store's doing, fixed here
\* for the tick.
WriteDBLock ==
    /\ pcSched = "dbLock"
    /\ CanLock(Mu)
    /\ Mu' = Lock(Mu, "sched")
    /\ pending' = DOMAIN StockData
    /\ dbDown' \in SUBSET (DOMAIN StockData)
    /\ pcSched' = IF DOMAIN StockData = {} THEN "dbUnlock" ELSE "dbLoop"
    /\ dbTicks' = dbTicks + 1
    /\ UNCHANGED << cacheTicks, cacheErrs >>
    /\ UNCHANGED << now, locOK, tickBound, unitVars, reply, readErrs, cache, db, StockData, mapBusy, pcMain, ingVars,
                    ticks, requests, storeHist, tickHist, ttlLog >>

\* A writeDataToDB whose Unlock is not deferred: the return on an error
\* leaves the function with the lock held.
AfterInsertNoDefer(failed, left) ==
    IF failed THEN "wait" ELSE IF left = {} THEN "dbUnlock" ELSE "dbLoop"

\* What writeDataToDB does after InsertIntradayData returned for a symbol,
\* given the symbols left to visit: on an error it returns, otherwise it goes
\* on while symbols are left.
AfterInsert(failed, left) ==
    IF failed \/ left = {} THEN "dbUnlock" ELSE "dbLoop"

\* A scheduler that starts a new bar once the record is persisted.
RecordAfterInsertReset(quote) == [quote EXCEPT !.Volume = 0]

\* The record of a symbol after writeDataToDB visited it: the loop only reads
\* the record, the map keeps it as it was.
RecordAfterInsert(quote) == quote

\* writeDataToDB: one iteration of the range loop, over the symbols in the
\* order the map yields them.
WriteDBInsert ==
    /\ pcSched = "dbLoop"
    /\ \E symbol \in pending :
         LET quote == Lookup(symbol)
             failed == symbol \in dbDown
         IN  /\ seen' = seen \cup {quote}
             /\ attempted' = attempted \cup {symbol}
             /\ pending' = pending \ {symbol}
             /\ IF failed
                THEN UNCHANGED << db, persisted >>
                ELSE /\ db' = InsertIntradayData(db, symbol,
                                  FormatTimestamp(quote.Timestamp), quote.OpenPrice,
                                  quote.HighPrice, quote.LowPrice, quote.PrevClose,
                                  quote.Volume)
                     /\ persisted' = persisted \cup {symbol}
             /\ StockData' = [StockData EXCEPT ![symbol] = RecordAfterInsert(quote)]
             /\ pcSched' = AfterInsert(failed, pending \ {symbol})
    /\ UNCHANGED << now, locOK, tickBound, unitVars, reply, readErrs, phaseHist, cache, Mu, mapBusy, pcMain, ingVars,
                    ticks, dbDown, requests, storeHist, ttlLog >>

\* writeDataToDB: the deferred Unlock; the loop of ScheduleDataWrite waits
\* for the next tick (the tick's history ends here).
WriteDBUnlock ==
    /\ pcSched = "dbUnlock"
    /\ Mu' = Unlock(Mu)
    /\ pcSched' = "wait"
    /\ pending' = {}
    /\ dbDown' = {}
    /\ seen' = {}
    /\ attempted' = {}
    /\ persisted' = {}
    /\ cacheErrs' = {}
    /\ UNCHANGED << cacheTicks, dbTicks >>
    /\ UNCHANGED << now, locOK, tickBound, unitVars, reply, readErrs, cache, db, StockData, mapBusy, pcMain, ingVars,
                    ticks, requests, storeHist, ttlLog >>

\* ----------------------------------------------------------------- serving
\* RedisStockCache.GetAllLatest: per key the member with the highest score
\* (ZREVRANGE key 0 0), left out when it does not decode; found when any key
\* yields one.
CacheGetAllLatest(c, redisOK) ==
    LET top(k) == LET sorted == ZSorted(c[k].members) IN sorted[Len(sorted)].member
        hit == {k \in DOMAIN c : c[k].members # {} /\ Decodes(top(k))}
    IN  IF ~redisOK THEN [stocks |-> << >>, found |-> FALSE]
        ELSE [stocks |-> [k \in hit |-> top(k)], found |-> hit # {}]

\* StockRepoImpl.GetAllLatestData: per symbol the row with the greatest
\* timestamp, as a StockQuote.
GetAllLatestData(d) ==
    LET syms == {k[1] : k \in DOMAIN d}
        latest(x) == CHOOSE k \in DOMAIN d :
                        k[1] = x /\ \A j \in DOMAIN d : j[1] = x => j[2] <= k[2]
    IN  [x \in syms |-> QuoteOfRow(x, latest(x)[2], d[latest(x)])]

\* The TTL the serving use case passes on its write-back.
servingTTL == CacheShortTTL

\* What a use case returns: a value and an error.
Ret(value, err) == [value |-> value, err |-> err]

\* net/http status codes.
StatusOK == 200
StatusNotFound == 404
StatusInternalServerError == 500

\* A handler that answers 404 when the use case fails.
GetQuoteMissingOnError(ret) ==
    IF ret.err \/ ret.value = << >> THEN StatusNotFound ELSE StatusOK

\* StockHandler.GetQuote, after its parameters parsed: an error of the use
\* case is a 500, a nil slice a 404, anything else a 200 with the quotes.
GetQuoteStatus(ret) ==
    IF ret.err THEN StatusInternalServerError
    ELSE IF ret.value = << >> THEN StatusNotFound
    ELSE StatusOK

\* StockHandler.GetAllQuotes: an error of the use case is a 500, anything
\* else a 200 with the map.
GetAllQuotesStatus(ret) ==
    IF ret.err THEN StatusInternalServerError ELSE StatusOK

\* The body sent with a status.
BodyOf(status, ret) == IF status = StatusOK THEN ret.value ELSE << >>

\* StockServingUseCase.GetQuote after the repository answered with rows and
\* Set was called: an error of Set is returned; otherwise `return quotes, nil`
\* with the quotes of the cache lookup, the repository's being a variable
\* of the inner block.
GetQuoteAfterSet(got, setErr) ==
    IF setErr THEN Ret(<< >>, TRUE) ELSE Ret(got.quotes, FALSE)

\* StockServingUseCase.GetQuote behind StockHandler.GetQuote: the cache first;
\* on a miss the repository, whose non-empty result is written back to the
\* cache.
GetQuote ==
    /\ pcMain = "serving"
    /\ requests < MaxRequests
    /\ requests' = requests + 1
    /\ \E symbol \in Symbols, w \in Windows, redisOK \in BOOLEAN, dbOK \in BOOLEAN :
         LET got == CacheGet(cache, redisOK, symbol, w[1], w[2])
             respond(fellBack, ret) ==
                 reply' = Reply("GetQuote", symbol, redisOK, dbOK, fellBack,
                                GetQuoteStatus(ret),
                                BodyOf(GetQuoteStatus(ret), ret))
         IN  IF got.found
             THEN /\ respond(FALSE, Ret(got.quotes, FALSE))
                  /\ UNCHANGED << cache, ttlLog >>
             ELSE IF ~dbOK
             THEN /\ respond(TRUE, Ret(<< >>, TRUE))
                  /\ UNCHANGED << cache, ttlLog >>
             ELSE \E quotes \in Orderings(RowsInRange(db, symbol, w[1], w[2])) :
                    IF Len(quotes) > 0
                    THEN LET set == CacheSet(cache, symbol, quotes, servingTTL, redisOK)
                         IN  /\ cache' = set.cache
                             /\ ttlLog' = ttlLog \cup {CacheWrite("GetQuote", servingTTL)}
                             /\ respond(TRUE, GetQuoteAfterSet(got, set.err))
                    ELSE /\ respond(TRUE, Ret(got.quotes, FALSE))
                         /\ UNCHANGED << cache, ttlLog >>
    /\ UNCHANGED << now, locOK, tickBound, unitVars, db, StockData, Mu, mapBusy, pcMain, ingVars,
                    schedVars, storeHist, tickHist, readErrs, phaseHist >>

\* StockServingUseCase.GetAllQuotes behind StockHandler.GetAllQuotes: the
\* cache first; on a miss the repository, whose result is written back to the
\* cache; what is returned is the map of the cache lookup.
GetAllQuotes ==
    /\ pcMain = "serving"
    /\ requests < MaxRequests
    /\ requests' = requests + 1
    /\ \E redisOK \in BOOLEAN, dbOK \in BOOLEAN, failing \in SUBSET Symbols :
         LET got == CacheGetAllLatest(cache, redisOK)
             respond(fellBack, ret) ==
                 reply' = Reply("GetAllQuotes", "", redisOK, dbOK, fellBack,
                                GetAllQuotesStatus(ret),
                                BodyOf(GetAllQuotesStatus(ret), ret))
         IN  IF got.found
             THEN /\ respond(FALSE, Ret(got.stocks, FALSE))
                  /\ UNCHANGED << cache, ttlLog >>
             ELSE IF ~dbOK
             THEN /\ respond(TRUE, Ret(<< >>, TRUE))
                  /\ UNCHANGED << cache, ttlLog >>
             ELSE /\ cache' = CacheSetAllLatest(cache, GetAllLatestData(db), servingTTL,
                                                failing)
                  /\ ttlLog' = IF DOMAIN GetAllLatestData(db) = {} THEN ttlLog
                               ELSE ttlLog \cup {CacheWrite("GetAllQuotes", servingTTL)}
                  /\ respond(TRUE, Ret(got.stocks, FALSE))
    /\ UNCHANGED << now, locOK, tickBound, unitVars, db, StockData, Mu, mapBusy, pcMain, ingVars,
                    schedVars, storeHist, tickHist, readErrs, phaseHist >>

\* ---------------------------------------------------------- the market clock
\* The UTC seconds of day a call is made at: midnight, the small hours, a
\* second before, at and after 09:30:00 and 16:00:00 New York time under
\* either offset, 17:00 UTC, and the last second of the day.
ProbeSecs ==
    {0, 10000, 48599, 48600, 48601, 52199, 52200, 52201, 61200,
     71999, 72000, 72001, 75599, 75600, 75601, 86399}

Probes == {UTCInstant(wd, sec, dst) : wd \in Sunday..Saturday, sec \in ProbeSecs, dst \in BOOLEAN}

\* A call utils.IsUSMarketOpen(currentTime).
CheckMarket ==
    /\ ~answer.returned
    /\ answer' = Answer(IsUSMarketOpen(InNewYork(probe), locOK))
    /\ UNCHANGED << refreshVars, probe, fanVars, delVars, readVars, storeVars, processVars >>

\* ------------------------------------------------------- the cache's TTLs
\* A string is a sequence of characters.
Digits == << "0", "1", "2", "3", "4", "5", "6", "7", "8", "9" >>

IsDigit(ch) == \E i \in DOMAIN Digits : Digits[i] = ch

DigitOf(ch) == (CHOOSE i \in DOMAIN Digits : Digits[i] = ch) - 1

\* strconv.Itoa of a number >= 0.
RECURSIVE Itoa(_)
Itoa(n) ==
    IF n < 10 THEN << Digits[n + 1] >>
    ELSE Itoa(n \div 10) \o << Digits[(n % 10) + 1] >>

\* The value of a string of digits.
RECURSIVE DigitsValue(_)
DigitsValue(str) ==
    IF str = << >> THEN 0
    ELSE 10 * DigitsValue(SubSeq(str, 1, Len(str) - 1)) + DigitOf(str[Len(str)])

\* utils.ToInt: strconv.Atoi with its error dropped; Atoi takes an optional
\* sign and one digit at least, and yields 0 for anything else.
ToInt(str) ==
    LET signed == Len(str) > 0 /\ str[1] \in {"+", "-"}
        digits == IF signed THEN SubSeq(str, 2, Len(str)) ELSE str
    IN  IF digits = << >> \/ \E i \in DOMAIN digits : ~IsDigit(digits[i]) THEN 0
        ELSE IF signed /\ str[1] = "-" THEN -DigitsValue(digits)
        ELSE DigitsValue(digits)

\* An environment variable: unset, or set to a string.
Unset == [set |-> FALSE, value |-> << >>]
SetTo(str) == [set |-> TRUE, value |-> str]

\* getEnv
getEnv(env, defaultValue) == IF env.set THEN env.value ELSE defaultValue

\* getCacheTTL, in seconds.
getCacheTTL(env, defaultTTL) == ToInt(getEnv(env, Itoa(defaultTTL)))

\* What CACHE_SHORT_TTL and CACHE_LONG_TTL may hold.
TTLEnvs ==
    {Unset, SetTo(<< "3", "0" >>), SetTo(<< "0" >>), SetTo(<< >>),
     SetTo(<< "1", "0", "s" >>), SetTo(<< "-", "5" >>)}

\* The expirations the use cases can pass to the cache.
ConfigTTLs ==
    {getCacheTTL(env, CacheShortTTL) : env \in TTLEnvs}
        \cup {getCacheTTL(env, CacheLongTTL) : env \in TTLEnvs}

\* -------------------------------------------------- the cache, on its own
\* The quotes a caller passes for a symbol: its latest bar, and for AAPL also
\* a later reading of the same bar (same timestamp, another price and volume).
QuotesOf(symbol) ==
    LET bar == HistoryOf(symbol)[Len(HistoryOf(symbol))]
    IN  IF symbol = "AAPL"
        THEN {bar, [bar EXCEPT !.Price = 151, !.Volume = 1100]}
        ELSE {bar}

\* The slices a caller passes to Set for a symbol.
SlicesOf(symbol) == {<< >>} \cup {<< q >> : q \in QuotesOf(symbol)}

\* The maps a caller passes to SetAll and to SetAllLatest.
SetAllMaps ==
    UNION {{m \in [D -> UNION {SlicesOf(x) : x \in D}] :
                \A x \in D : m[x] \in SlicesOf(x)} : D \in SUBSET Symbols}

SetAllLatestMaps ==
    UNION {{m \in [D -> UNION {QuotesOf(x) : x \in D}] :
                \A x \in D : m[x] \in QuotesOf(x)} : D \in SUBSET Symbols}

\* A call RedisStockCache.Set(symbol, stock, expiration).
SetCall ==
    /\ fanCall.op = "none"
    /\ calls < MaxCalls
    /\ calls' = calls + 1
    /\ \E symbol \in Symbols, expiration \in ConfigTTLs, zaddOK \in BOOLEAN :
         \E stock \in SlicesOf(symbol) :
            LET r == CacheSet(cache, symbol, stock, expiration, zaddOK)
            IN  /\ cache' = r.cache
                /\ lastCall' = Returned(calls', "Set", {symbol}, expiration,
                                        IF r.err THEN {symbol} ELSE {},
                                        IF r.err THEN "error" ELSE "nil")
    /\ UNCHANGED << refreshVars, probeVars, delVars, readVars, storeVars, fanCall, toSpawn, wg, running, besideCache >>

\* A call RedisStockCache.SetLatest(symbol, stock, expiration).
SetLatestCall ==
    /\ fanCall.op = "none"
    /\ calls < MaxCalls
    /\ calls' = calls + 1
    /\ \E symbol \in Symbols, expiration \in ConfigTTLs, zaddOK \in BOOLEAN :
         \E stock \in QuotesOf(symbol) :
            /\ cache' = CacheSetLatest(cache, symbol, stock, expiration, zaddOK)
            /\ lastCall' = Returned(calls', "SetLatest", {symbol}, expiration,
                                    IF zaddOK THEN {} ELSE {symbol}, "nil")
    /\ UNCHANGED << refreshVars, probeVars, delVars, readVars, storeVars, fanCall, toSpawn, wg, running, besideCache >>

\* A Wait that does not wait.
WaitPassesAtOnce(n) == TRUE

\* wg.Wait() returns when the counter is zero.
WaitPasses(n) == n = 0

\* A SetAll that reports a failed write.
FanOutErrorIfAny(errs) == IF errs = {} THEN "nil" ELSE "error"

\* What SetAll and SetAllLatest return, given the symbols whose write failed:
\* `return nil`.
FanOutError(errs) == "nil"

\* A call SetAll(stocks, expiration) or SetAllLatest(stocks, expiration)
\* begins; failing are the symbols whose ZADD will fail.
FanOutCall ==
    /\ fanCall.op = "none"
    /\ calls < MaxCalls
    /\ calls' = calls + 1
    /\ \E expiration \in ConfigTTLs :
         \/ \E stocks \in SetAllMaps, failing \in SUBSET Symbols :
              /\ failing \subseteq DOMAIN stocks
              /\ fanCall' = [op |-> "SetAll", stocks |-> stocks,
                             expiration |-> expiration, failing |-> failing,
                             errs |-> {}]
              /\ toSpawn' = DOMAIN stocks
         \/ \E stocks \in SetAllLatestMaps, failing \in SUBSET Symbols :
              /\ failing \subseteq DOMAIN stocks
              /\ fanCall' = [op |-> "SetAllLatest", stocks |-> stocks,
                             expiration |-> expiration, failing |-> failing,
                             errs |-> {}]
              /\ toSpawn' = DOMAIN stocks
    /\ UNCHANGED << refreshVars, probeVars, delVars, readVars, storeVars, wg, running, lastCall, processVars >>

\* One iteration of the range loop: wg.Add(1), then the goroutine is started.
FanOutSpawn ==
    /\ fanCall.op # "none"
    /\ \E symbol \in toSpawn :
         /\ toSpawn' = toSpawn \ {symbol}
         /\ wg' = wg + 1
         /\ running' = running \cup {symbol}
    /\ UNCHANGED << refreshVars, probeVars, delVars, readVars, storeVars, calls, fanCall, lastCall, processVars >>

\* A goroutine of the call: Set or SetLatest for its symbol, then wg.Done().
FanOutWorker ==
    /\ fanCall.op # "none"
    /\ \E symbol \in running :
         LET ok == symbol \notin fanCall.failing
             set == CacheSet(cache, symbol, fanCall.stocks[symbol],
                             fanCall.expiration, ok)
             failed == IF fanCall.op = "SetAll" THEN set.err ELSE ~ok
         IN  /\ cache' = IF fanCall.op = "SetAll" THEN set.cache
                         ELSE CacheSetLatest(cache, symbol, fanCall.stocks[symbol],
                                             fanCall.expiration, ok)
             /\ fanCall' = [fanCall EXCEPT
                               !.errs = IF failed THEN @ \cup {symbol} ELSE @]
             /\ running' = running \ {symbol}
             /\ wg' = wg - 1
    /\ UNCHANGED << refreshVars, probeVars, delVars, readVars, storeVars, calls, toSpawn, lastCall, besideCache >>

\* wg.Wait() returns after the loop, and the call returns.
FanOutReturn ==
    /\ fanCall.op # "none"
    /\ toSpawn = {}
    /\ WaitPasses(wg)
    /\ lastCall' = Returned(calls, fanCall.op, DOMAIN fanCall.stocks,
                            fanCall.expiration, fanCall.errs,
                            FanOutError(fanCall.errs))
    /\ fanCall' = NoCall
    /\ UNCHANGED << refreshVars, probeVars, delVars, readVars, storeVars, calls, toSpawn, wg, running, processVars >>

\* ------------------------------------------------------- clearing the cache
\* Redis KEYS "stock:*:history": the keys the cache holds.
Keys(c) == DOMAIN c

\* Redis DEL key: the key and its sorted set are gone; no error when absent.
Del(c, key) == [k \in (DOMAIN c) \ {key} |-> c[k]]

\* RedisStockCache.DeleteAll, the KEYS call: its reply is what the range loop
\* will visit; on an error DeleteAll returns it.
DeleteAllKeys ==
    /\ delPc = "idle"
    /\ \E keysOK \in BOOLEAN :
         IF keysOK
         THEN /\ delKeys' = Keys(cache)
              /\ delPc' = "range"
              /\ UNCHANGED delErr
         ELSE /\ delPc' = "returned"
              /\ delErr' = "error"
              /\ UNCHANGED delKeys
    /\ UNCHANGED << refreshVars, probeVars, fanVars, readVars, storeVars, processVars >>

\* One iteration of the range loop: DEL of the next key; on an error
\* DeleteAll returns it and the keys not yet visited are left.
DeleteAllDel ==
    /\ delPc = "range"
    /\ \E key \in delKeys, delOK \in BOOLEAN :
         IF delOK
         THEN /\ cache' = Del(cache, key)
              /\ delKeys' = delKeys \ {key}
              /\ UNCHANGED << delPc, delErr >>
         ELSE /\ delPc' = "returned"
              /\ delErr' = "error"
              /\ UNCHANGED << cache, delKeys >>
    /\ UNCHANGED << refreshVars, probeVars, fanVars, readVars, storeVars, besideCache >>

\* The range loop is over: return nil.
DeleteAllReturn ==
    /\ delPc = "range"
    /\ delKeys = {}
    /\ delPc' = "returned"
    /\ delErr' = "nil"
    /\ UNCHANGED << refreshVars, probeVars, fanVars, readVars, storeVars, delKeys, processVars >>

\* ------------------------------------------------------- reading the cache
\* The greatest Unix second a reader passes as a bound of its interval.
MaxScore == 2

\* The intervals [startTime, endTime] a reader passes, in Unix seconds.
ReadWindows == {w \in (0..MaxScore) \X (0..MaxScore) : w[1] <= w[2]}

\* A snapshot of AAPL taken half a second after its latest bar, at a lower
\* price.
LateQuote == StockQuote("AAPL", 148, 8, 571, 150, 148, 150, 140, 1050, 1500)

\* The caches a reader finds: empty, the history of one or of both symbols,
\* and AAPL's history with a second snapshot within the second of the last.
ReadCaches ==
    {WarmCache(D) : D \in {{}, {"AAPL"}, Symbols}}
        \cup {ZAdd(WarmCache({"AAPL"}), "AAPL",
                   {[score |-> ScoreOf(LateQuote), member |-> LateQuote]})}

\* A Get that, on a miss, leaves an entry for the symbol behind.
GetCallFilling ==
    /\ \E symbol \in Symbols, w \in ReadWindows, redisOK \in BOOLEAN :
         LET got == CacheGet(cache, redisOK, symbol, w[1], w[2])
         IN  /\ lastRead' = Read("Get", symbol, w[1], w[2], redisOK, got.quotes,
                                 got.found)
             /\ cache' = IF got.found THEN cache
                         ELSE CacheSet(cache, symbol, HistoryOf(symbol),
                                       CacheShortTTL, TRUE).cache
    /\ UNCHANGED << refreshVars, probeVars, fanVars, delVars, storeVars, besideCache >>

\* A call RedisStockCache.Get(symbol, startTime, endTime).
GetCall ==
    /\ \E symbol \in Symbols, w \in ReadWindows, redisOK \in BOOLEAN :
         LET got == CacheGet(cache, redisOK, symbol, w[1], w[2])
         IN  lastRead' = Read("Get", symbol, w[1], w[2], redisOK, got.quotes,
                              got.found)
    /\ UNCHANGED << refreshVars, probeVars, fanVars, delVars, storeVars, processVars >>

\* A call RedisStockCache.GetAll(startTime, endTime).
GetAllCall ==
    /\ \E w \in ReadWindows, redisOK \in BOOLEAN :
         LET got == CacheGetAll(cache, redisOK, w[1], w[2])
         IN  lastRead' = Read("GetAll", "", w[1], w[2], redisOK, got.stocks,
                              got.found)
    /\ UNCHANGED << refreshVars, probeVars, fanVars, delVars, storeVars, processVars >>

\* A call RedisStockCache.GetAllLatest().
GetAllLatestCall ==
    /\ \E redisOK \in BOOLEAN :
         LET got == CacheGetAllLatest(cache, redisOK)
         IN  lastRead' = Read("GetAllLatest", "", 0, 0, redisOK, got.stocks,
                              got.found)
    /\ UNCHANGED << refreshVars, probeVars, fanVars, delVars, storeVars, processVars >>

\* The caches pre-population may find: those of ReadCaches, and one where
\* TSLA's entry holds a member that does not decode.
PrepopCaches ==
    ReadCaches
        \cup {[k \in Symbols |->
                 IF k = "TSLA"
                 THEN [members |-> {[score |-> 1, member |-> Garbled]},
                       ttl |-> CacheLongTTL]
                 ELSE WarmCache({k})[k]]}

\* PrePopulateLatestData(latestData) called with what GetAllHistoricalData
\* returns: the map of RedisStockCache.GetAll, empty on a miss.  For every
\* symbol, in the order the map yields them: Lock, the last element of the
\* slice is installed, Unlock.  The index expression panics on an empty
\* slice, with the lock held and the symbols visited before installed.
PrePopulateCall ==
    /\ pcMain = "boot"
    /\ \E w \in ReadWindows, redisOK \in BOOLEAN :
         LET got == CacheGetAll(cache, redisOK, w[1], w[2])
             latestData == got.stocks
             empties == {s \in DOMAIN latestData : Len(latestData[s]) = 0}
         IN  /\ lastRead' = Read("GetAllHistoricalData", "", w[1], w[2], redisOK,
                                 latestData, got.found)
             /\ IF empties = {}
                THEN /\ StockData' = PrePopulateLatestData(StockData, latestData)
                     /\ pcMain' = "serving"
                     /\ UNCHANGED Mu
                ELSE \E visited \in SUBSET ((DOMAIN latestData) \ empties) :
                       /\ StockData' = PrePopulateLatestData(StockData,
                                           [s \in visited |-> latestData[s]])
                       /\ pcMain' = "crashed"
                       /\ Mu' = Lock(Mu, "main")
    /\ UNCHANGED << refreshVars, probeVars, fanVars, delVars, storeVars >>
    /\ UNCHANGED << now, locOK, tickBound, cache, db, mapBusy, ingVars, schedVars,
                    requests, storeHist, tickHist, ttlLog, reply, readErrs,
                    phaseHist >>

\* ----------------------------------------------- the durable store's upsert
\* Calls of InsertIntradayData made on its own.
MaxInserts == 2

\* The rows a caller passes: the seeded bar of AAPL, the rows that differ
\* from it in one column, and one that differs in all.
InsertRows ==
    LET bar == Row(150, 150, 150, 150, 1000)
    IN  {bar, [bar EXCEPT !.open = 151], [bar EXCEPT !.high = 153],
         [bar EXCEPT !.low = 149], [bar EXCEPT !.close = 152],
         [bar EXCEPT !.volume = 1050], Row(151, 153, 149, 152, 1050)}

\* The timestamps a caller passes, in milliseconds: two within one second
\* and one of the next.
InsertTimes == {1000, 1500, 2000}

\* The state of the process beside the table.
besideDb ==
    << now, locOK, tickBound, cache, StockData, Mu, mapBusy, pcMain, ingVars,
       schedVars, requests, storeHist, tickHist, ttlLog, reply, readErrs, phaseHist >>

\* A call StockRepoImpl.InsertIntradayData(symbol, timestamp, open, high, low,
\* close, volume) that the database executes.
InsertCall ==
    /\ lastInsert.n < MaxInserts
    /\ \E symbol \in Symbols, t \in InsertTimes, r \in InsertRows :
         LET timestamp == FormatTimestamp(t)
         IN  /\ db' = InsertIntradayData(db, symbol, timestamp, r.open, r.high,
                                         r.low, r.close, r.volume)
             /\ lastInsert' = Inserted(lastInsert.n + 1, symbol, timestamp, r,
                                       Cardinality(DOMAIN db),
                                       <<symbol, timestamp>> \in DOMAIN db)
    /\ UNCHANGED << refreshVars, probeVars, fanVars, delVars, readVars, besideDb >>

\* ------------------------------------------------- the time-series refresh
\* Timestamps and dates of the API's time series.  Both are strings in one
\* layout ("2006-01-02 15:04:05", "2006-01-02"), so they compare as the
\* instants do; they are numbered in that order, intraday ones by the second
\* as the table's keys are.
MaxStamp == 3

RefreshTimes == 0..MaxStamp

\* The TimeSeriesData the response holds for an entry.
BarAt(t) == Row(150 + t, 151 + t, 149 + t, 150 + t, 1000)

\* StockRepoImpl.InsertDailyData: INSERT ... ON CONFLICT DO UPDATE.
InsertDailyData(d, symbol, date, o, h, l, c, v) ==
    [k \in (DOMAIN d) \cup {<<symbol, date>>} |->
        IF k = <<symbol, date>> THEN Row(o, h, l, c, v) ELSE d[k]]

\* SELECT MAX(timestamp) ... WHERE symbol = $1, formatted; NULL gives "".
GetLatestIntradayDataTimestamp(d, symbol) ==
    LET ts == {k[2] : k \in {x \in DOMAIN d : x[1] = symbol}}
    IN  IF ts = {} THEN NoTimestamp ELSE CHOOSE t \in ts : \A u \in ts : u <= t

\* SELECT MAX(date) ... WHERE symbol = $1, formatted; NULL gives "".
GetLatestDailyDataDate(d, symbol) ==
    LET ds == {k[2] : k \in {x \in DOMAIN d : x[1] = symbol}}
    IN  IF ds = {} THEN NoTimestamp ELSE CHOOSE t \in ds : \A u \in ds : u <= t

\* stock_daily_data holding the days 0 and 1 of the symbols of D.
SeededDaily(D) ==
    [k \in D \X {0, 1} |-> BarAt(k[2])]

\* fetchIntradayData / fetchDailyData up to the range loop: the HTTP request
\* and the decoding (any failure returns), the latest timestamp or date of
\* the table (an error returns), and the return when the table is not older
\* than the response's LastRefreshed.
FetchStart ==
    /\ refresh.pc = "idle"
    /\ \E kind \in {"intraday", "daily"}, symbol \in Symbols,
          series \in SUBSET RefreshTimes, lastRefresh \in RefreshTimes,
          apiOK \in BOOLEAN, dbOK \in BOOLEAN :
         LET latest == IF kind = "intraday"
                       THEN GetLatestIntradayDataTimestamp(db, symbol)
                       ELSE GetLatestDailyDataDate(daily, symbol)
         IN  refresh' =
                IF ~apiOK \/ ~dbOK \/ (latest # NoTimestamp /\ latest >= lastRefresh)
                THEN [NoRefresh EXCEPT !.pc = "returned", !.kind = kind,
                                       !.symbol = symbol]
                ELSE [pc |-> IF series = {} THEN "done" ELSE "loop", kind |-> kind,
                      symbol |-> symbol, latest |-> latest,
                      lastRefresh |-> lastRefresh, series |-> series,
                      left |-> series, attempted |-> {}]
    /\ UNCHANGED << daily, probeVars, fanVars, delVars, readVars, storeVars,
                    processVars >>

\* The range loop after an entry at or before the latest: fetchIntradayData
\* leaves the loop (break), fetchDailyData goes on (continue).
AfterOldEntry(kind, left) ==
    IF kind = "intraday" THEN "done" ELSE IF left = {} THEN "done" ELSE "loop"

\* One iteration of `for timestamp, data := range apiResponse.TimeSeries`:
\* the map yields its entries in any order; an entry after the latest is
\* inserted, an insert's error is only printed.
FetchVisit ==
    /\ refresh.pc = "loop"
    /\ \E t \in refresh.left, insertOK \in BOOLEAN :
         LET left == refresh.left \ {t}
             bar == BarAt(t)
         IN  IF t <= refresh.latest
             THEN /\ refresh' = [refresh EXCEPT
                                    !.left = left,
                                    !.pc = AfterOldEntry(refresh.kind, left)]
                  /\ UNCHANGED << db, daily >>
             ELSE /\ refresh' = [refresh EXCEPT
                                    !.left = left,
                                    !.attempted = @ \cup {t},
                                    !.pc = IF left = {} THEN "done" ELSE "loop"]
                  /\ IF ~insertOK THEN UNCHANGED << db, daily >>
                     ELSE IF refresh.kind = "intraday"
                     THEN /\ db' = InsertIntradayData(db, refresh.symbol, t, bar.open,
                                         bar.high, bar.low, bar.close, bar.volume)
                          /\ UNCHANGED daily
                     ELSE /\ daily' = InsertDailyData(daily, refresh.symbol, t,
                                         bar.open, bar.high, bar.low, bar.close,
                                         bar.volume)
                          /\ UNCHANGED db
    /\ UNCHANGED << probeVars, fanVars, delVars, readVars, storeVars, besideDb >>

\* ----------------------------------------------------------- specification
\* The ingester goroutine.
Ingester ==
    \/ IngDial
    \/ IngReadJSON
    \/ IngRLock
    \/ IngLookup
    \/ IngRUnlock
    \/ IngLock
    \/ IngStoreBegin
    \/ IngStoreEnd
    \/ IngUnlock

\* The scheduler goroutine.
Scheduler ==
    \/ SchedStart
    \/ SchedTick
    \/ WriteCacheLock
    \/ WriteCacheSetAllLatest
    \/ WriteCacheUnlock
    \/ WriteDBLock
    \/ WriteDBInsert
    \/ WriteDBUnlock

\* The HTTP handlers' use case.
Serving ==
    \/ GetQuote
    \/ GetAllQuotes

\* The fetching subsystem: startup, the ingester and the scheduler sharing
\* LatestQuoteData.
Next ==
    \/ ClockAdvance
    \/ FetchRealTimeData
    \/ Ingester
    \/ Scheduler

Spec == Init /\ [][Next]_vars

\* The fetching subsystem under the scheduling the runtime gives it.  Every
\* goroutine that can take its next step takes it (the Go scheduler runs every
\* runnable goroutine; the cache and durable-store calls return), and a
\* goroutine waiting in Lock gets the lock when it is free again and again
\* (sync.RWMutex hands the lock to a waiter).  Nothing is assumed of the feed
\* (ReadJSON), of the dial, of the timer or of the clock.
Fairness ==
    /\ WF_vars(FetchRealTimeData)
    /\ SF_vars(IngRLock \/ IngLookup \/ IngRUnlock \/ IngLock \/ IngStoreBegin
                 \/ IngStoreEnd \/ IngUnlock)
    /\ SF_vars(WriteCacheLock \/ WriteCacheSetAllLatest \/ WriteCacheUnlock
                 \/ WriteDBLock \/ WriteDBInsert \/ WriteDBUnlock)

\* A start while the market is open with one symbol cached.
InitLive == InitWith({{"AAPL"}}, {Symbols}, {2}, {TRUE}, MaxTicks)

SpecLive == InitLive /\ [][Next]_vars /\ Fairness

\* The cache writers: startup, the scheduler and the serving use case, with
\* a silent feed.
NextServe ==
    \/ ClockAdvance
    \/ FetchRealTimeData
    \/ Scheduler
    \/ Serving

InitServe ==
    InitWith({{}, {"AAPL"}, Symbols}, {{}, Symbols}, 1..Len(Clock), BOOLEAN,
             MaxSchedTicks)

SpecServe == InitServe /\ [][NextServe]_vars

\* utils.IsUSMarketOpen called on its own, at any of Probes, with the time
\* zone loaded or not.
InitClock ==
    /\ InitProcess({{}}, {{}}, {1}, BOOLEAN, 0)
    /\ probe \in Probes
    /\ answer = NoAnswer
    /\ FanIdle
    /\ DelIdle
    /\ ReadIdle
    /\ StoreIdle
    /\ RefreshIdle

NextClock == CheckMarket

SpecClock == InitClock /\ [][NextClock]_vars

\* RedisStockCache called on its own, on an empty cache or on one that holds
\* AAPL's history.
InitCache ==
    /\ InitProcess({{}, {"AAPL"}}, {{}}, {1}, {TRUE}, 0)
    /\ ProbeIdle
    /\ FanIdle
    /\ DelIdle
    /\ ReadIdle
    /\ StoreIdle
    /\ RefreshIdle

NextCache ==
    \/ SetCall
    \/ SetLatestCall
    \/ FanOutCall
    \/ FanOutSpawn
    \/ FanOutWorker
    \/ FanOutReturn

SpecCache == InitCache /\ [][NextCache]_vars

\* DeleteAll called while another client of the same Redis writes: the cache
\* is empty or holds the history of one or of both symbols.
InitFlush ==
    /\ InitProcess({{}, {"AAPL"}, Symbols}, {{}}, {1}, {TRUE}, 0)
    /\ ProbeIdle
    /\ FanIdle
    /\ DelIdle
    /\ ReadIdle
    /\ StoreIdle
    /\ RefreshIdle

NextFlush ==
    \/ DeleteAllKeys
    \/ DeleteAllDel
    \/ DeleteAllReturn
    \/ SetCall
    \/ SetLatestCall

SpecFlush == InitFlush /\ [][NextFlush]_vars

\* RedisStockCache read and written by callers, one call at a time.
InitRead ==
    /\ InitProcessOn(ReadCaches, {EmptyTable}, {1}, {TRUE}, 0)
    /\ ProbeIdle
    /\ FanIdle
    /\ DelIdle
    /\ ReadIdle
    /\ StoreIdle
    /\ RefreshIdle

NextRead ==
    \/ GetCall
    \/ GetAllCall
    \/ GetAllLatestCall
    \/ SetCall
    \/ SetLatestCall

SpecRead == InitRead /\ [][NextRead]_vars

\* PrePopulateLatestData called on its own, at any instant of the clock.
InitPrepop ==
    /\ InitProcessOn(PrepopCaches, {EmptyTable}, 1..Len(Clock), {TRUE}, 0)
    /\ ProbeIdle
    /\ FanIdle
    /\ DelIdle
    /\ ReadIdle
    /\ StoreIdle
    /\ RefreshIdle

NextPrepop == PrePopulateCall

SpecPrepop == InitPrepop /\ [][NextPrepop]_vars

\* One fetch of the time series of one symbol, on empty or seeded tables.
InitRefresh ==
    /\ InitProcessOn({WarmCache({})}, {EmptyTable, SeededTable(Symbols)}, {1},
                     {TRUE}, 0)
    /\ ProbeIdle
    /\ FanIdle
    /\ DelIdle
    /\ ReadIdle
    /\ StoreIdle
    /\ refresh = NoRefresh
    /\ daily \in {SeededDaily({}), SeededDaily(Symbols)}

NextRefresh ==
    \/ FetchStart
    \/ FetchVisit

SpecRefresh == InitRefresh /\ [][NextRefresh]_vars

\* InsertIntradayData called on its own, on an empty table or on one that
\* holds the history of both symbols.
InitStore ==
    /\ InitProcess({{}}, {{}, Symbols}, {1}, {TRUE}, 0)
    /\ ProbeIdle
    /\ FanIdle
    /\ DelIdle
    /\ ReadIdle
    /\ StoreIdle
    /\ RefreshIdle

NextStore == InsertCall

SpecStore == InitStore /\ [][NextStore]_vars


\* ------------------------------------------------------------- properties
\* C1: a read of the quote table for a symbol returns exactly the record most
\* recently written for it: the table holds one record per written symbol and
\* that record is, field for field, the one the latest write stored.
C1_ReadReturnsLastWrite ==
    ~mapBusy =>
        /\ DOMAIN StockData = DOMAIN lastWritten
        /\ \A s \in DOMAIN lastWritten : Lookup(s) = lastWritten[s]

\* C1 witness: a symbol was installed and then overwritten twice by accepted
\* trade events.
C1_Witness ==
    /\ pcIng = "read"
    /\ \E s \in Symbols : Cardinality(written[s]) >= 3

\* C2: no reader observes a partially written record: the record the ingester
\* looked up and every record the scheduler read in its tick is a record that
\* one single write stored.
C2_NoTornRead ==
    /\ \A q \in seen : q.Symbol \in Symbols /\ q \in written[q.Symbol]
    /\ pcIng \in {"runlock", "lock", "store", "storing", "unlock"} =>
          /\ prevQuote # TornQuote
          /\ exists => prevQuote \in written[trade.s]

\* C2 witness: the scheduler, inside its durable-store loop, has read a record
\* the ingester wrote, while the ingester waits for the lock with the next
\* accepted event.
C2_Witness ==
    /\ pcSched = "dbLoop"
    /\ pcIng = "lock"
    /\ \E q \in seen : accepted[q.Symbol] # {} /\ q = lastWritten[q.Symbol]

\* C3: a trade event for a symbol without a record leaves the quote table
\* unchanged, and the symbols of the table are those pre-population installed.
C3_ColdStartPolicy ==
    [][/\ dropped' # dropped => StockData' = StockData
       /\ pcMain' # "boot" => DOMAIN StockData' = DOMAIN baseline']_vars

\* C3 witness: an event for TSLA was discarded while AAPL, which has a
\* baseline, took an accepted event.
C3_Witness ==
    /\ "TSLA" \in dropped
    /\ "TSLA" \notin DOMAIN StockData
    /\ accepted["AAPL"] # {}

\* C4: the record written for an accepted trade event (p, v) on the record b
\* looked up has price p, change p - b.price, changePct the percentage of the
\* change in b.price, high max(p, b.high), low min(p, b.low) and volume
\* b.volume + v; baseline 150/150/150/1000 with trade 152/50 gives 152, 2,
\* 1.33, 152, 150, 1050.
C4_DerivedRecord ==
    pcIng = "unlock" =>
        LET b == prevQuote
            r == StockData[trade.s]
            err == r.ChangePercentage * b.Price - 10000 * (trade.p - b.Price)
        IN  /\ r.Price = trade.p
            /\ r.Change = trade.p - b.Price
            /\ 2 * err <= b.Price /\ 2 * err >= -b.Price
            /\ r.HighPrice >= trade.p /\ r.HighPrice >= b.HighPrice
            /\ r.HighPrice \in {trade.p, b.HighPrice}
            /\ r.LowPrice <= trade.p /\ r.LowPrice <= b.LowPrice
            /\ r.LowPrice \in {trade.p, b.LowPrice}
            /\ r.Volume = b.Volume + trade.v
            /\ (b.Price = 150 /\ b.HighPrice = 150 /\ b.LowPrice = 150
                  /\ b.Volume = 1000 /\ trade.p = 152 /\ trade.v = 50) =>
                  /\ r.Price = 152 /\ r.Change = 2 /\ r.ChangePercentage = 133
                  /\ r.HighPrice = 152 /\ r.LowPrice = 150 /\ r.Volume = 1050

\* C4 witness: the trade 152/50 was written on the baseline 150/150/150/1000.
C4_Witness ==
    /\ pcIng = "unlock"
    /\ prevQuote.Price = 150 /\ prevQuote.HighPrice = 150
    /\ prevQuote.LowPrice = 150 /\ prevQuote.Volume = 1000
    /\ trade.p = 152 /\ trade.v = 50

\* C5: the cumulative volume stored for a symbol never decreases, whatever
\* volume the accepted trade events carry.
C5_VolumeNonDecreasing ==
    [][\A s \in DOMAIN StockData :
          s \in DOMAIN StockData' /\ StockData'[s].Volume >= StockData[s].Volume]_vars

\* C6: the stored running high is at least, and the stored running low at
\* most, every accepted trade price of the symbol; the high never decreases
\* and the low never increases.
C6_RunningHighLow ==
    [][\A s \in DOMAIN StockData' :
          /\ \A p \in accepted'[s] :
                StockData'[s].HighPrice >= p /\ StockData'[s].LowPrice <= p
          /\ s \in DOMAIN StockData =>
                /\ StockData'[s].HighPrice >= StockData[s].HighPrice
                /\ StockData'[s].LowPrice <= StockData[s].LowPrice]_vars

\* C6 witness: AAPL took the prices 152 and then 148; its high stayed 152 and
\* its low went to 148.
C6_Witness ==
    /\ "AAPL" \in DOMAIN StockData
    /\ accepted["AAPL"] = {148, 152}
    /\ StockData["AAPL"].Price = 148
    /\ StockData["AAPL"].HighPrice = 152
    /\ StockData["AAPL"].LowPrice = 148

\* C7: the previous-session close of a symbol's record equals the one of the
\* pre-populated baseline after any sequence of accepted trade events.
C7_PrevCloseCarried ==
    \A s \in DOMAIN StockData :
        s \in DOMAIN baseline => StockData[s].PrevClose = baseline[s].PrevClose

\* C8: the session-open price of a symbol's record equals the one of the
\* pre-populated baseline after any sequence of accepted trade events.
C8_OpenPriceCarried ==
    \A s \in DOMAIN StockData :
        s \in DOMAIN baseline /\ StockData[s].OpenPrice = baseline[s].OpenPrice

\* C8 witness: AAPL took two accepted events and no longer trades at its
\* baseline price.
C8_Witness ==
    /\ "AAPL" \in DOMAIN StockData
    /\ Cardinality(written["AAPL"]) >= 3
    /\ StockData["AAPL"].Price # baseline["AAPL"].Price

\* C9: when the durable-store write fails for exactly one symbol of the table
\* during a tick, the write was attempted and persisted for every other symbol
\* by the time the tick's flush ends.
C9_PartialFailureIsolation ==
    (pcSched = "dbUnlock" /\ Cardinality(dbDown) = 1) =>
        /\ DOMAIN StockData \subseteq attempted
        /\ (DOMAIN StockData) \ dbDown \subseteq persisted

\* C10: every cache write (updateCache at startup, the scheduler's
\* SetAllLatest, the serving write-back) passes the short TTL when the market
\* is open at the time of the write and the long TTL when it is closed.
C10_TTLMatchesMarket ==
    locOK =>
        \A w \in ttlLog : w.ttl = IF w.open THEN CacheShortTTL ELSE CacheLongTTL

\* C11: when the market is closed at the instant ScheduleDataWrite starts, the
\* scheduler returns at once and stays returned: it takes no tick and writes
\* neither to the cache nor to the durable store, whatever the market does
\* afterwards.
C11_ClosedStartNoTicks ==
    [][/\ (pcSched = "start" /\ pcSched' # "start" /\ ~MarketOpenNow) =>
              pcSched' = "exit"
       /\ pcSched = "exit" =>
              /\ pcSched' = "exit"
              /\ ticks = 0 /\ ticks' = 0
              /\ db' = db
              /\ cache' # cache => (requests' # requests \/ pcMain' # pcMain)]_vars

\* C11 witness: the scheduler started with records to flush while the market
\* was closed and has returned; the market is open now.
C11_Witness ==
    /\ pcSched = "exit"
    /\ locOK
    /\ MarketOpenNow
    /\ ticks = 0
    /\ DOMAIN StockData # {}

\* C12: when the market is open at the instant ScheduleDataWrite starts, the
\* scheduler enters its loop and never leaves it: a tick is taken whenever
\* the ticker fires, whatever the market state at that moment, and a flush
\* that failed ends in the scheduler waiting for the next tick.
C12_OpenStartKeepsTicking ==
    /\ [][/\ (pcSched = "start" /\ pcSched' # "start" /\ locOK /\ MarketOpenNow) =>
                 pcSched' = "wait"
          /\ pcSched \notin {"idle", "start", "exit"} => pcSched' # "exit"
          /\ (pcSched = "dbUnlock" /\ pcSched' # "dbUnlock") => pcSched' = "wait"]_vars
    /\ [](pcSched = "wait" /\ ticks < tickBound => ENABLED SchedTick)

\* C12 witness: the second tick's flush runs after the market closed, the
\* first tick's durable-store write having failed (the store is still empty).
C12_Witness ==
    /\ ticks = 2
    /\ pcSched = "dbLoop"
    /\ ~MarketOpenNow
    /\ DOMAIN StockData # {}
    /\ db = EmptyTable

\* C13: with the time zone loaded, IsUSMarketOpen(t) is true exactly when t, as
\* New York wall-clock time, is on Monday..Friday, strictly after 09:30:00 and
\* strictly before 16:00:00; it is false at 09:30:00, at 16:00:00 and on
\* Saturday and Sunday.
C13_MarketHours ==
    (answer.returned /\ locOK) =>
        LET behind == IF probe.dst THEN 4 * 3600 ELSE 5 * 3600
            week == 7 * 86400
            local == (probe.wd * 86400 + probe.sec - behind + week) % week
            weekday == local \div 86400
            second == local % 86400
            opening == 9 * 3600 + 30 * 60
            closing == 16 * 3600
        IN  /\ answer.value =
                   (weekday \in 1..5 /\ second > opening /\ second < closing)
            /\ second = opening => ~answer.value
            /\ second = closing => ~answer.value
            /\ weekday \in {0, 6} => ~answer.value

\* C13 witness: the call made on a Tuesday at 12:00:00 New York time (17:00
\* UTC in winter) returned true.
C13_Witness ==
    /\ locOK
    /\ probe = UTCInstant(2, 61200, FALSE)
    /\ answer = Answer(TRUE)

\* C14: when the time zone cannot be loaded, no caller gets an answer from
\* IsUSMarketOpen: the scheduler never gets past its market check and
\* updateCache never picks a TTL.
C14_ZoneFailureIsFatal ==
    ~locOK =>
        /\ pcSched \in {"idle", "start"}
        /\ \A w \in ttlLog : w.op # "updateCache"

\* C15: within one tick the scheduler works on one snapshot of the table: the
\* record it writes to the durable store for a symbol is the record it wrote
\* to the cache for that symbol in the same tick.
C15_OneSnapshotPerTick ==
    \A q1 \in seen, q2 \in seen : q1.Symbol = q2.Symbol => q1 = q2

\* C16: a GetQuote that misses the cache writes the rows it read from the
\* durable store back into the cache, with the TTL of the market state at
\* that moment: the short TTL when the market is open, the long one when
\* it is closed.
C16_MissWritesBackWithMarketTTL ==
    [][\A w \in ttlLog' \ ttlLog :
          w.op = "GetQuote" =>
              /\ \A symbol \in DOMAIN cache' :
                    \A z \in cache'[symbol].members :
                        \/ symbol \in DOMAIN cache /\ z \in cache[symbol].members
                        \/ <<symbol, z.score>> \in DOMAIN db
              /\ w.ttl = IF w.open THEN CacheShortTTL ELSE CacheLongTTL]_vars

\* The call in progress wrote what it was given for symbol into cache c.
Wrote(c, symbol) ==
    /\ symbol \in DOMAIN c
    /\ IF fanCall.op = "SetAll"
       THEN prepareZData(fanCall.stocks[symbol]) \subseteq c[symbol].members
       ELSE [score |-> ScoreOf(fanCall.stocks[symbol]),
             member |-> fanCall.stocks[symbol]] \in c[symbol].members

\* A SetAll or SetAllLatest call returns in this step.
FanOutReturns ==
    /\ lastCall' # lastCall
    /\ lastCall'.op \in {"SetAll", "SetAllLatest"}

\* C17: SetAll and SetAllLatest return only after the write of every symbol of
\* the argument has completed or failed: at the return no goroutine of the
\* call is running or waiting to be started, and every symbol whose write did
\* not fail is in the cache with what was written.
C17_JoinBarrier ==
    [][FanOutReturns =>
          /\ toSpawn = {} /\ running = {} /\ wg = 0
          /\ \A symbol \in lastCall'.symbols \ lastCall'.errs :
                Wrote(cache', symbol)]_vars

\* C17 witness: a SetAll of two symbols returned, one write having failed,
\* the other symbol being in the cache.
C17_Witness ==
    /\ lastCall.op = "SetAll"
    /\ Cardinality(lastCall.symbols) = 2
    /\ Cardinality(lastCall.errs) = 1
    /\ running = {}
    /\ lastCall.symbols \ lastCall.errs \subseteq DOMAIN cache

\* C18: SetAll and SetAllLatest return nil whatever writes failed; a goroutine
\* of the call touches the entry of its own symbol only, and the symbols
\* whose write did not fail are written when the call returns.
C18_FailSoft ==
    [][/\ FanOutReturns =>
             /\ lastCall'.err = "nil"
             /\ \A symbol \in lastCall'.symbols \ lastCall'.errs :
                   Wrote(cache', symbol)
       /\ \A symbol \in running \ running' :
             \A other \in DOMAIN cache \ {symbol} :
                 other \in DOMAIN cache' /\ cache'[other] = cache[other]]_vars

\* C18 witness: a SetAllLatest of two symbols returned nil although the
\* write of one of them failed.
C18_Witness ==
    /\ lastCall.op = "SetAllLatest"
    /\ lastCall.err = "nil"
    /\ Cardinality(lastCall.symbols) = 2
    /\ lastCall.errs # {}
    /\ lastCall.symbols \ lastCall.errs # {}

\* C19: after any sequence of Set and SetLatest calls, an entry of the cache
\* never holds two snapshots with the same timestamp.
C19_OneSnapshotPerTimestamp ==
    \A key \in DOMAIN cache :
        \A y \in cache[key].members, z \in cache[key].members :
            y.member.Timestamp = z.member.Timestamp => y = z

\* C20: every successful Set or SetLatest sets the entry's expiration to the
\* TTL passed by the caller, whatever TTL the configuration produced, and
\* every entry of the cache has an expiration.
C20_EveryWriteRefreshesExpiry ==
    /\ [][(lastCall' # lastCall /\ lastCall'.op \in {"Set", "SetLatest"}
              /\ lastCall'.errs = {}) =>
             \A symbol \in lastCall'.symbols :
                 /\ symbol \in DOMAIN cache'
                 /\ cache'[symbol].ttl = lastCall'.expiration]_vars
    /\ [](\A key \in DOMAIN cache : cache[key].ttl > 0)

\* C21: DeleteAll clears every entry.  When it returns nil the cache holds no
\* stock entry, so GetAll and GetAllLatest report not found, also when another
\* client writes to the cache while it runs; when it returns an error the step
\* that failed removed nothing.
C21_DeleteAllClears ==
    [][/\ (delErr = "none" /\ delErr' = "nil") =>
            /\ Keys(cache') = {}
            /\ \A w \in Windows : ~CacheGetAll(cache', TRUE, w[1], w[2]).found
            /\ ~CacheGetAllLatest(cache', TRUE).found
       /\ (delErr = "none" /\ delErr' = "error") => cache' = cache]_vars

\* C22: the read operations Get, GetAll and GetAllLatest never modify the
\* cache, neither on a hit nor on a miss nor on a Redis error; an entry
\* appears or changes only in a step of Set, SetAll, SetLatest or SetAllLatest.
C22_ReadsLeaveCache ==
    [][/\ lastRead' # lastRead => cache' = cache
       /\ cache' # cache => calls' = calls + 1 /\ lastRead' = lastRead]_vars

\* C22 witness: a Get missed on a cache that does not hold the symbol, which
\* is still absent.
C22_Witness ==
    /\ lastRead.op = "Get"
    /\ lastRead.redisOK
    /\ ~lastRead.found
    /\ lastRead.symbol \notin Keys(cache)
    /\ calls = 0

\* The snapshots the entry of a symbol holds whose timestamp, in whole
\* seconds, lies in the closed interval [lo, hi].
InInterval(c, symbol, lo, hi) ==
    IF symbol \in Keys(c)
    THEN {z.member : z \in {y \in c[symbol].members :
                                y.member.Timestamp \div 1000 \in lo..hi}}
    ELSE {}

\* quotes holds exactly the snapshots of want, each once, in ascending order
\* of their timestamps in whole seconds.
ExactlyAscending(quotes, want) ==
    /\ {quotes[i] : i \in DOMAIN quotes} = want
    /\ Len(quotes) = Cardinality(want)
    /\ \A i, j \in DOMAIN quotes :
          i < j => quotes[i].Timestamp \div 1000 <= quotes[j].Timestamp \div 1000

C23_BackendErrorIsAMiss ==
    reply.op # "none" /\ ~reply.redisOK =>
        /\ reply.fellBack
        /\ reply.dbOK => reply.status # StatusInternalServerError

\* C28: a request for the quotes of a symbol that has data neither in the
\* cache nor in the durable store is answered 404, whether or not Redis
\* answers; a request whose query of the durable store fails is answered with
\* an error status and not with 404.
C28_NotFoundAndStoreError ==
    reply.op = "GetQuote" =>
        /\ (/\ reply.dbOK
            /\ reply.symbol \notin Keys(cache)
            /\ \A k \in DOMAIN db : k[1] # reply.symbol)
              => reply.status = StatusNotFound
        /\ reply.fellBack /\ ~reply.dbOK =>
              reply.status = StatusInternalServerError

\* C28 witness: TSLA, absent from the cache and from the durable store, was
\* asked for and answered 404.
C28_Witness ==
    /\ reply.op = "GetQuote"
    /\ reply.symbol \notin Keys(cache)
    /\ \A k \in DOMAIN db : k[1] # reply.symbol
    /\ reply.fellBack
    /\ reply.dbOK
    /\ reply.status = StatusNotFound

\* C24: a malformed trade event is dropped and is not fatal.  Whenever the
\* ingester reads a message that is not a list of well-formed trades, it
\* leaves the quote table as it was and goes on reading, and the process
\* goes on running.
C24_MalformedDropped ==
    [][pcIng = "read" /\ msgs' # msgs /\ pcIng' # "rlock" =>
          /\ pcIng' = "read"
          /\ StockData' = StockData
          /\ pcMain' = pcMain
          /\ pcSched' = pcSched]_vars

\* C25: within one symbol the ingester's writes are applied in the order the
\* feed delivered the events.  A message is read only when every entry of
\* the one before was handled, the entries of a message are handled in the
\* order of the list, and every record written is derived from the record
\* the table holds for the symbol at that moment, which is the one derived
\* from the event before.
C25_FeedOrder ==
    [][/\ msgs' # msgs => msg = << >> \/ idx = Len(msg)
       /\ (msgs' = msgs /\ idx' # idx) => msg' = msg /\ idx' = idx + 1
       /\ (pcIng = "storing" /\ pcIng' = "unlock") =>
             /\ trade.s \in DOMAIN StockData
             /\ prevQuote = StockData[trade.s]
             /\ StockData' = MapAssign(StockData, trade.s,
                                       DeriveQuote(StockData[trade.s], trade))]_vars

\* C25 witness: AAPL traded at 152 and then at 148; the record of the second
\* trade has the price of the first as the price before it.
C25_Witness ==
    /\ "AAPL" \in DOMAIN StockData
    /\ ~mapBusy
    /\ StockData["AAPL"].Price = 148
    /\ StockData["AAPL"].PrevClose = 152
    /\ StockData["AAPL"].Volume = baseline["AAPL"].Volume

\* C26: the intraday write of the durable store is an idempotent upsert keyed
\* by (symbol, timestamp).  After a write the table holds one row with the
\* key, carrying the open, high, low, close and volume written; a write on a
\* key the table held adds no row; and the same write again leaves the table
\* as it is.
C26_IdempotentUpsert ==
    lastInsert.n > 0 =>
        LET key == << lastInsert.symbol, lastInsert.timestamp >>
            r == lastInsert.row
        IN  /\ key \in DOMAIN db
            /\ db[key] = r
            /\ Cardinality(DOMAIN db) =
                   lastInsert.rowsBefore + (IF lastInsert.conflict THEN 0 ELSE 1)
            /\ InsertIntradayData(db, key[1], key[2], r.open, r.high, r.low,
                                  r.close, r.volume) = db

\* C26 witness: the second write hit the key of a row the table held, with
\* other values than the seeded ones.
C26_Witness ==
    /\ lastInsert.n = MaxInserts
    /\ lastInsert.conflict
    /\ lastInsert.symbol = "AAPL"
    /\ lastInsert.timestamp = 1
    /\ lastInsert.row = Row(151, 153, 149, 152, 1050)
    /\ Cardinality(DOMAIN db) = lastInsert.rowsBefore

\* C27: the baselines are installed before streaming starts.  Until
\* FetchRealTimeData has pre-populated the quote table, and for good when
\* pre-population fails, the ingester and the scheduler are not started: no
\* message was read and no tick taken.
C27_BaselinesFirst ==
    pcMain \in {"boot", "fatal"} =>
        /\ pcIng = "idle"
        /\ pcSched = "idle"
        /\ msgs = 0
        /\ ticks = 0
        /\ lastWritten = baseline

\* C27 witness: pre-population failed (the cache was empty and the durable
\* store did not answer) and nothing was started.
C27_Witness ==
    /\ pcMain = "fatal"
    /\ StockData = EmptyMap
    /\ pcIng = "idle"
    /\ pcSched = "idle"

\* C30: a read error of the feed costs only that read.  The failed read
\* changes neither the quote table nor the cache nor the durable store, the
\* ingester is back at ReadJSON and never ends because of it, and the rest
\* of the process runs on.
C30_ReadErrorSkipped ==
    /\ [][readErrs' # readErrs =>
             /\ pcIng' = "read"
             /\ StockData' = StockData
             /\ cache' = cache
             /\ db' = db
             /\ pcMain' = pcMain
             /\ pcSched' = pcSched]_vars
    /\ [](readErrs > 0 => pcIng # "exit")

\* C30 witness: the first read failed, the second delivered a trade of a
\* symbol with a baseline, and its record was stored.
C30_Witness ==
    /\ readErrs = 1
    /\ msgs = 2
    /\ pcIng = "unlock"
    /\ StockData[trade.s] = DeriveQuote(baseline[trade.s], trade)

\* C31: in each tick of the scheduler the cache write comes before the
\* writes to the durable store, and the durable store is written in that tick
\* whatever the cache write did.  While a tick is before its cache write
\* neither has happened for it; from the cache write on the cache was written
\* for it; and a tick ends only after writeDataToDB ran, so that between
\* ticks both have run once per tick.
C31_CacheThenStore ==
    /\ pcSched \in {"cacheLock", "cacheSet"} =>
            cacheTicks = ticks - 1 /\ dbTicks = ticks - 1
    /\ pcSched \in {"cacheUnlock", "dbLock"} =>
            cacheTicks = ticks /\ dbTicks = ticks - 1
    /\ pcSched \in {"dbLoop", "dbUnlock", "wait"} =>
            cacheTicks = ticks /\ dbTicks = ticks
    /\ attempted # {} => cacheTicks = ticks /\ dbTicks = ticks

\* C31 witness: in the second tick every cache write failed and a row was
\* written to the durable store all the same.
C31_Witness ==
    /\ ticks = 2
    /\ DOMAIN StockData # {}
    /\ cacheErrs = DOMAIN StockData
    /\ persisted # {}

\* C32: startup on a cold cache.  When FetchRealTimeData finds the cache empty
\* and succeeds, the quote table holds a baseline for every symbol the
\* durable store has history of.
C32_ColdCacheBaselines ==
    [][(pcMain = "boot" /\ pcMain' = "serving" /\ Keys(cache) = {}) =>
          \A k \in DOMAIN db : k[1] \in DOMAIN StockData']_vars

\* C33: on a cache miss the serving use case returns what it obtained from
\* the durable store.  A GetQuote that missed the cache, with Redis up, and
\* found rows of the symbol in the store is answered 200 with those rows; a
\* GetAllQuotes that missed the cache is answered with the mapping of
\* GetAllLatestData.
C33_MissReturnsStoreData ==
    [][(reply' # reply /\ reply'.fellBack /\ reply'.dbOK /\ reply'.redisOK) =>
          /\ (/\ reply'.op = "GetQuote"
              /\ \E k \in DOMAIN db : k[1] = reply'.symbol) =>
                /\ reply'.status = StatusOK
                /\ reply'.body # << >>
                /\ {reply'.body[i] : i \in DOMAIN reply'.body}
                       \subseteq RowsInRange(db, reply'.symbol, 0, 2)
          /\ reply'.op = "GetAllQuotes" =>
                /\ reply'.status = StatusOK
                /\ reply'.body = GetAllLatestData(db)]_vars

\* C34: the row a tick writes to the durable store for a symbol records the
\* symbol's current state.  While the scheduler holds the lock for
\* writeDataToDB, the row of every symbol written in this tick has the
\* record's price as close and its open price, running high, running low and
\* cumulative volume as open, high, low and volume.
C34_RowRecordsCurrentState ==
    pcSched \in {"dbLoop", "dbUnlock"} =>
        \A symbol \in persisted :
            LET quote == StockData[symbol]
                key == << symbol, FormatTimestamp(quote.Timestamp) >>
            IN  /\ key \in DOMAIN db
                /\ db[key] = Row(quote.OpenPrice, quote.HighPrice, quote.LowPrice,
                                 quote.Price, quote.Volume)

\* C35: the ingester's read-modify-write loses no update.  From the moment
\* the baseline of an accepted trade was read until the new record is
\* written, through the release of the read lock and the wait for the write
\* lock, the record the table holds for the symbol is the baseline that was
\* read; and the ingester handles no trade before pre-population is over.
C35_NoLostUpdate ==
    /\ pcIng \in {"lock", "store", "storing"} =>
          /\ trade.s \in DOMAIN StockData
          /\ StockData[trade.s] = prevQuote
    /\ pcMain = "boot" => pcIng = "idle"

\* C35 witness: the ingester read the baseline of an accepted trade and waits
\* for the write lock while the scheduler, holding it, has persisted the
\* record of the trade's symbol.
C35_Witness ==
    /\ pcIng = "lock"
    /\ pcSched = "dbUnlock"
    /\ trade.s \in persisted
    /\ stockQuote # prevQuote

C37_InstallsGreatestTimestamp ==
    lastRead.op = "GetAllHistoricalData" =>
        /\ pcMain = "serving"
        /\ \A s \in DOMAIN lastRead.value :
              /\ s \in DOMAIN StockData
              /\ \A i \in DOMAIN lastRead.value[s] :
                    lastRead.value[s][i].Timestamp <= StockData[s].Timestamp

\* C38: GetAllLatest returns, for every symbol with a non-empty cache entry,
\* the snapshot with the greatest timestamp of the entry.
C38_LatestIsGreatestTimestamp ==
    [][(lastRead' # lastRead /\ lastRead'.op = "GetAllLatest" /\ lastRead'.redisOK) =>
          \A k \in DOMAIN cache :
              cache[k].members # {} =>
                  /\ k \in DOMAIN lastRead'.value
                  /\ \A z \in cache[k].members :
                        z.member.Timestamp <= lastRead'.value[k].Timestamp]_vars

\* C39: the incremental refresh.  When a fetch whose response is newer than
\* the table's latest timestamp (or date) L has left its loop, an insert was
\* attempted for every entry of the series after L and for no other,
\* whatever the order the map yielded the entries in.
C39_IncrementalRefresh ==
    (refresh.pc = "done" /\ refresh.lastRefresh > refresh.latest) =>
        refresh.attempted = {t \in refresh.series : t > refresh.latest}

=============================================================================
